---- MODULE Spec2Model ----
(***************************************************************************)
(* aws-cost-notification: the reporting date range, the Cost Explorer      *)
(* requests, the response parser and one run of request_cost_and_notify.   *)
(*                                                                         *)
(* Conventions of the model                                                *)
(*   Option<T>      None is <<>>, Some(x) is <<x>>                         *)
(*   String that the program parses or formats: a sequence of one-         *)
(*                  character strings, "2021-07-01" is                     *)
(*                  <<"2","0","2","1","-","0","7","-","0","1">>            *)
(*   String that the program only carries (names, units, keys): a string   *)
(*   a call that can panic: <<"ok", value>> or <<"panic", where>>          *)
(***************************************************************************)
EXTENDS Integers, Sequences, FiniteSets, TLC

VARIABLES
    mode,               \* which entry point this behaviour exercises
    pc,                 \* position inside the entry point
    reporting_date,     \* Date<T> handed to ReportDateRange::new
    report_date_range,  \* Option<ReportDateRange>
    requests,           \* requests built by build_cost_and_usage_request
    reparsed,           \* Option: the interval's strings parsed back
    input_timestamp,    \* Option: a string given to the timestamp parser
    response,           \* GetCostAndUsageResponse given to the parsers
    total_cost,         \* Option of the outcome of TotalCost::from
    service_costs,      \* Option of the outcome of ServiceCost::from_response
    calls,              \* requests received by the injected client, in order
    replies,            \* what the client answered, in order
    message,            \* Option of the outcome of NotificationMessage::new
    posts,              \* messages handed to the Slack client, in order
    slack_replies,      \* what the Slack client answered, in order
    invocations,        \* how many times the handler has been invoked
    now,                \* Option: the DateTime<T> given to date_in_specified_timezone
    tz_string,          \* Option: the timezone name given to it
    actual_date,        \* Option: what date_in_specified_timezone returned
    client_call,        \* Option: a call of CostAndUsageClient::get_cost_and_usage
    entries,            \* how many times its body has been entered
    forwarded,          \* requests handed to the wrapped CostExplorerClient
    returned,           \* Option: what get_cost_and_usage returned
    parsed_service_costs, \* Option: what total_cost.rs parse_service_costs returned
    payload,            \* Option: what NotificationMessage::as_payload returned
    result              \* Option of what request_cost_and_notify returned

vars == <<mode, pc, reporting_date, report_date_range, requests, reparsed,
          input_timestamp, response, total_cost, service_costs, calls, replies, message,
          posts, slack_replies, invocations, now, tz_string, actual_date,
          client_call, entries, forwarded, returned, parsed_service_costs,
          payload,
          result>>

\* ------------------------------------------------------------------ bounds
\* Last ordinary year of the reporting dates.
MaxYear == 2021
\* Longest group list of a response.
MaxGroups == 2
\* invocations of the handler in one behaviour of SpecRuns
MaxRuns == 2

\* ----------------------------------------------------------------- Options
None == <<>>
Some(x) == <<x>>
IsSome(o) == Len(o) = 1
Unwrap(o) == o[1]

Ok(v) == <<"ok", v>>
Panic(where) == <<"panic", where>>
IsOk(r) == r[1] = "ok"
IsPanic(r) == r[1] = "panic"
Val(r) == r[2]

\* ------------------------------------------------------------------- chars
Digits == <<"0", "1", "2", "3", "4", "5", "6", "7", "8", "9">>
DigitChar(n) == Digits[n + 1]
IsDigit(c) == \E i \in 1..10 : Digits[i] = c
DigitVal(c) == (CHOOSE i \in 1..10 : Digits[i] = c) - 1

RECURSIVE NatToChars(_)
NatToChars(n) ==
    IF n < 10 THEN <<DigitChar(n)>>
    ELSE NatToChars(n \div 10) \o <<DigitChar(n % 10)>>

RECURSIVE ZeroPad(_, _)
ZeroPad(s, width) ==
    IF Len(s) >= width THEN s ELSE ZeroPad(<<"0">> \o s, width)

\* ---------------------------------------------------------------- calendar
IsLeapYear(y) == (y % 4 = 0 /\ y % 100 # 0) \/ y % 400 = 0

DaysInMonth(y, m) ==
    IF m = 2 THEN (IF IsLeapYear(y) THEN 29 ELSE 28)
    ELSE IF m \in {4, 6, 9, 11} THEN 30 ELSE 31

IsValidDate(y, m, d) ==
    m \in 1..12 /\ d >= 1 /\ d <= DaysInMonth(y, m)

Date(y, m, d) == [year |-> y, month |-> m, day |-> d]

\* Date<T> ordering (derived from the underlying NaiveDate)
DateLe(a, b) ==
    \/ a.year < b.year
    \/ a.year = b.year /\ a.month < b.month
    \/ a.year = b.year /\ a.month = b.month /\ a.day <= b.day

DateLt(a, b) == DateLe(a, b) /\ a # b

\* Date::with_day
with_day(date, d) ==
    IF IsValidDate(date.year, date.month, d)
    THEN Some([date EXCEPT !.day = d])
    ELSE None

\* Date::pred
pred(date) ==
    IF date.day > 1 THEN [date EXCEPT !.day = date.day - 1]
    ELSE IF date.month > 1
         THEN Date(date.year, date.month - 1,
                   DaysInMonth(date.year, date.month - 1))
         ELSE Date(date.year - 1, 12, 31)

\* ----------------------------------------------------- date_range.rs
\* slip: the previous month is taken on every day of the month
ReportDateRangeNewAlwaysPrevious(date) ==
    LET first_day_of_month == Unwrap(with_day(date, 1))
    IN  [start_date |-> Unwrap(with_day(pred(first_day_of_month), 1)),
         end_date |-> date]

\* slip: the two dates are stored in each other's field
ReportDateRangeNewExchanged(date) ==
    LET first_day_of_month == Unwrap(with_day(date, 1))
        start_date ==
            IF date = first_day_of_month
            THEN Unwrap(with_day(pred(first_day_of_month), 1))
            ELSE first_day_of_month
    IN  [start_date |-> date, end_date |-> start_date]

\* slip: the first day of the month is not treated apart
ReportDateRangeNewNeverPrevious(date) ==
    [start_date |-> Unwrap(with_day(date, 1)), end_date |-> date]

\* slip: with_day(1) is not applied to the day before the 1st
ReportDateRangeNewLastDayOfPrevious(date) ==
    LET first_day_of_month == Unwrap(with_day(date, 1))
        start_date ==
            IF date = first_day_of_month
            THEN pred(first_day_of_month)
            ELSE first_day_of_month
    IN  [start_date |-> start_date, end_date |-> date]

ReportDateRangeNew(date) ==
    LET first_day_of_month == Unwrap(with_day(date, 1))
        start_date ==
            IF date = first_day_of_month
            THEN Unwrap(with_day(pred(first_day_of_month), 1))
            ELSE first_day_of_month
    IN  [start_date |-> start_date, end_date |-> date]

\* chrono's "%Y": four digits zero padded; a year outside 0..9999 carries
\* an explicit sign and at least four digits.
FormatYear(y) ==
    IF 0 <= y /\ y < 10000 THEN ZeroPad(NatToChars(y), 4)
    ELSE IF y < 0 THEN <<"-">> \o ZeroPad(NatToChars(0 - y), 4)
    ELSE <<"+">> \o ZeroPad(NatToChars(y), 4)

\* Date::format("%Y-%m-%d").to_string()
FormatDate(date) ==
    FormatYear(date.year) \o <<"-">> \o ZeroPad(NatToChars(date.month), 2)
        \o <<"-">> \o ZeroPad(NatToChars(date.day), 2)

\* slip: the two bounds of the interval are exchanged
as_date_interval_swapped(range) ==
    [end |-> FormatDate(range.start_date), start |-> FormatDate(range.end_date)]

as_date_interval(range) ==
    [end |-> FormatDate(range.end_date), start |-> FormatDate(range.start_date)]

\* ------------------------------------- chrono: NaiveDate::parse_from_str
Err(code) == <<"err", code>>

Whitespace == {" ", "\t", "\n"}

\* str::trim_left
RECURSIVE TrimLeft(_)
TrimLeft(s) ==
    IF s # <<>> /\ Head(s) \in Whitespace THEN TrimLeft(Tail(s)) ELSE s

\* number of leading ASCII digits of s, at most max
RECURSIVE DigitPrefixLen(_, _)
DigitPrefixLen(s, max) ==
    IF max = 0 \/ s = <<>> \/ ~IsDigit(Head(s)) THEN 0
    ELSE 1 + DigitPrefixLen(Tail(s), max - 1)

RECURSIVE CharsToNat(_)
CharsToNat(s) ==
    IF s = <<>> THEN 0
    ELSE 10 * CharsToNat(SubSeq(s, 1, Len(s) - 1)) + DigitVal(s[Len(s)])

\* format::scan::number: between min and max digits, the rest is returned
ScanNumber(s, min, max) ==
    IF Len(s) < min THEN Err("TOO_SHORT")
    ELSE LET k == DigitPrefixLen(s, max)
         IN  IF k < min THEN Err("INVALID")
             ELSE Ok([rest |-> SubSeq(s, k + 1, Len(s)),
                      n |-> CharsToNat(SubSeq(s, 1, k))])

\* slip: every field has exactly `width` digits and nothing before them
ParseNumericFixedWidth(s, width, signed) == ScanNumber(s, width, width)

\* Item::Numeric: leading whitespace is skipped; a signed field accepts
\* '-' or '+' followed by any number of digits, otherwise at most `width`
ParseNumeric(s, width, signed) ==
    LET t == TrimLeft(s)
    IN  IF signed /\ t # <<>> /\ Head(t) = "-"
        THEN LET r == ScanNumber(Tail(t), 1, Len(t))
             IN  IF IsOk(r)
                 THEN Ok([rest |-> Val(r).rest, n |-> 0 - Val(r).n])
                 ELSE r
        ELSE IF signed /\ t # <<>> /\ Head(t) = "+"
        THEN ScanNumber(Tail(t), 1, Len(t))
        ELSE ScanNumber(t, 1, width)

\* Item::Literal
ParseLiteral(s, c) ==
    IF Len(s) < 1 THEN Err("TOO_SHORT")
    ELSE IF Head(s) # c THEN Err("INVALID")
    ELSE Ok(Tail(s))

\* NaiveDate::parse_from_str(s, "%Y-%m-%d")
NaiveDateParseFromStr(s) ==
    LET y == ParseNumeric(s, 4, TRUE)
    IN  IF ~IsOk(y) THEN y ELSE
    LET l1 == ParseLiteral(Val(y).rest, "-")
    IN  IF ~IsOk(l1) THEN l1 ELSE
    LET m == ParseNumeric(Val(l1), 2, FALSE)
    IN  IF ~IsOk(m) THEN m ELSE
    LET l2 == ParseLiteral(Val(m).rest, "-")
    IN  IF ~IsOk(l2) THEN l2 ELSE
    LET d == ParseNumeric(Val(l2), 2, FALSE)
    IN  IF ~IsOk(d) THEN d ELSE
        IF Val(d).rest # <<>> THEN Err("TOO_LONG")
        ELSE IF ~IsValidDate(Val(y).n, Val(m).n, Val(d).n)
        THEN Err("OUT_OF_RANGE")
        ELSE Ok(Date(Val(y).n, Val(m).n, Val(d).n))

\* ------------------------------- cost_explorer/cost_response_parser.rs
\* The LocalResult of Local.from_local_date is Single(date): Some(date).
parse_timestamp_into_local_date(timestamp) ==
    LET parsed == NaiveDateParseFromStr(timestamp)
    IN  IF IsOk(parsed) THEN Ok(Some(Val(parsed)))
        ELSE Panic("parse_timestamp_into_local_date")

\* Date::succ: the next calendar day
succ(date) ==
    IF date.day < DaysInMonth(date.year, date.month)
    THEN Date(date.year, date.month, date.day + 1)
    ELSE IF date.month < 12 THEN Date(date.year, date.month + 1, 1)
    ELSE Date(date.year + 1, 1, 1)

\* chrono_tz: the zones of the model with their offsets from UTC in minutes
\* (zones without daylight saving time); any other name does not parse
TzNames ==
    {"UTC", "Asia/Tokyo", "Asia/Kolkata", "Pacific/Honolulu",
     "Pacific/Kiritimati"}

TzOffset(name) ==
    CASE name = "UTC" -> 0
      [] name = "Asia/Tokyo" -> 540
      [] name = "Asia/Kolkata" -> 330
      [] name = "Pacific/Honolulu" -> 0 - 600
      [] name = "Pacific/Kiritimati" -> 840

\* tz_string.parse::<Tz>()
TzParse(name) ==
    IF name \in TzNames THEN Ok(name) ELSE Err("is not a valid timezone")

\* A DateTime<T> is an instant, held as its date and minute of the day in
\* UTC, with the offset of its own timezone T.
\* datetime.with_timezone(&tz).date()
DateAtOffset(datetime, offset) ==
    IF datetime.minute + offset >= 1440 THEN succ(datetime.date)
    ELSE IF datetime.minute + offset < 0 THEN pred(datetime.date)
    ELSE datetime.date

\* slip: the date is taken in the timezone of the input
date_in_own_timezone(datetime, name) ==
    LET timezone == TzParse(name)
    IN  IF IsOk(timezone)
        THEN Ok([date |-> DateAtOffset(datetime, datetime.offset),
                 timezone |-> Val(timezone)])
        ELSE Err("Invalid Timezone!")

\* date_in_specified_timezone
date_in_specified_timezone(datetime, name) ==
    LET timezone == TzParse(name)
    IN  IF IsOk(timezone)
        THEN Ok([date |-> DateAtOffset(datetime, TzOffset(Val(timezone))),
                 timezone |-> Val(timezone)])
        ELSE Err("Invalid Timezone!")

\* ----------------------------------------------------- cost_explorer.rs
\* slip: the grouping is attached whatever is_total says
build_request_always_grouped(range, is_total) ==
    [filter |-> None,
     granularity |-> "MONTHLY",
     group_by |-> Some(<<[type_ |-> Some("DIMENSION"), key |-> Some("SERVICE")]>>),
     metrics |-> <<"AmortizedCost">>,
     next_page_token |-> None,
     time_period |-> as_date_interval(range)]

\* slip: the service request asks for the reporting day only
build_request_other_period(range, is_total) ==
    [filter |-> None,
     granularity |-> "MONTHLY",
     group_by |-> IF is_total THEN None
                  ELSE Some(<<[type_ |-> Some("DIMENSION"),
                               key |-> Some("SERVICE")]>>),
     metrics |-> <<"AmortizedCost">>,
     next_page_token |-> None,
     time_period |-> IF is_total THEN as_date_interval(range)
                     ELSE [end |-> FormatDate(range.end_date),
                           start |-> FormatDate(range.end_date)]]

build_cost_and_usage_request(range, is_total) ==
    LET group_by ==
            IF is_total THEN None
            ELSE Some(<<[type_ |-> Some("DIMENSION"), key |-> Some("SERVICE")]>>)
    IN  [filter |-> None,
         granularity |-> "MONTHLY",
         group_by |-> group_by,
         metrics |-> <<"AmortizedCost">>,
         next_page_token |-> None,
         time_period |-> as_date_interval(range)]

\* ------------------------------------------------- str::parse::<f32>
\* An f32 is carried as sign, exponent and 24-bit significand:
\* the value is man * 2^(exp - 23), with 2^23 <= man < 2^24, or zero, or NaN.
\* Subnormals, infinities and exponent notation are outside the model.
RECURSIVE Pow10(_)
Pow10(n) == IF n = 0 THEN 1 ELSE 10 * Pow10(n - 1)

RECURSIVE Pow2(_)
Pow2(n) == IF n = 0 THEN 1 ELSE 2 * Pow2(n - 1)

F32(neg, exp, man) == [kind |-> "num", neg |-> neg, exp |-> exp, man |-> man]
F32Zero(neg) == F32(neg, 0, 0)
NaN == [kind |-> "nan", neg |-> FALSE, exp |-> 0, man |-> 0]

\* binary long division of q + r/u until the quotient has 24 bits
RECURSIVE Normalize(_, _, _, _)
Normalize(q, r, u, exp) ==
    IF q >= Pow2(23) THEN [q |-> q, r |-> r, exp |-> exp]
    ELSE Normalize(2 * q + (IF 2 * r >= u THEN 1 ELSE 0), (2 * r) % u, u,
                   exp - 1)

\* the f32 nearest to n/u, ties to even (n/u < 2^24)
RoundToF32(neg, n, u) ==
    IF n = 0 THEN F32Zero(neg)
    ELSE LET z == Normalize(n \div u, n % u, u, 23)
             up == 2 * z.r > u \/ (2 * z.r = u /\ z.q % 2 = 1)
             man == IF up THEN z.q + 1 ELSE z.q
         IN  IF man = Pow2(24) THEN F32(neg, z.exp + 1, Pow2(23))
             ELSE F32(neg, z.exp, man)

\* digits [ "." digits ] with at least one digit
ParseDecimal(s) ==
    LET i == DigitPrefixLen(s, Len(s))
        after == SubSeq(s, i + 1, Len(s))
        hasDot == after # <<>> /\ Head(after) = "."
        fracs == IF hasDot THEN Tail(after) ELSE <<>>
        f == DigitPrefixLen(fracs, Len(fracs))
    IN  IF ~hasDot /\ after # <<>> THEN Err("invalid float literal")
        ELSE IF f # Len(fracs) THEN Err("invalid float literal")
        ELSE IF i + f = 0 THEN Err("invalid float literal")
        ELSE Ok([n |-> CharsToNat(SubSeq(s, 1, i) \o fracs), u |-> Pow10(f)])

ParseF32(s) ==
    IF s = <<>> THEN Err("cannot parse float from empty string")
    ELSE LET neg == Head(s) = "-"
             body == IF Head(s) \in {"-", "+"} THEN Tail(s) ELSE s
         IN  IF body = <<"N", "a", "N">> THEN Ok(NaN)
             ELSE LET d == ParseDecimal(body)
                  IN  IF ~IsOk(d) THEN d
                      ELSE Ok(RoundToF32(neg, Val(d).n, Val(d).u))

\* ------------------------------- cost_explorer/cost_response_parser.rs
\* HashMap::get
Get(map, key) == IF key \in DOMAIN map THEN Some(map[key]) ELSE None

\* impl From<MetricValue> for Cost
CostFrom(from) ==
    IF from.amount = None THEN Panic("amount is None")
    ELSE LET parsed == ParseF32(Unwrap(from.amount))
         IN  IF ~IsOk(parsed) THEN Panic("amount is not a number")
             ELSE IF from.unit = None THEN Panic("unit is None")
             ELSE Ok([amount |-> Val(parsed), unit |-> Unwrap(from.unit)])

\* slip: the last time bucket is read
LastResultByTime(res) ==
    IF res.results_by_time = None THEN Panic("results_by_time is None")
    ELSE IF Unwrap(res.results_by_time) = <<>>
    THEN Panic("results_by_time is empty")
    ELSE Ok(Unwrap(res.results_by_time)[Len(Unwrap(res.results_by_time))])

\* &res.results_by_time.as_ref().unwrap()[0]
FirstResultByTime(res) ==
    IF res.results_by_time = None THEN Panic("results_by_time is None")
    ELSE IF Unwrap(res.results_by_time) = <<>>
    THEN Panic("results_by_time is empty")
    ELSE Ok(Unwrap(res.results_by_time)[1])

\* impl From<GetCostAndUsageResponse> for TotalCost
TotalCostFrom(from) ==
    IF ~IsOk(FirstResultByTime(from)) THEN FirstResultByTime(from)
    ELSE
    LET result_by_time == Val(FirstResultByTime(from))
    IN  IF result_by_time.time_period = None THEN Panic("time_period is None")
        ELSE
    LET time_period == Unwrap(result_by_time.time_period)
        start == parse_timestamp_into_local_date(time_period.start)
    IN  IF ~IsOk(start) THEN start
        ELSE IF Val(start) = None THEN Panic("start is not a local date")
        ELSE
    LET end == parse_timestamp_into_local_date(time_period.end)
    IN  IF ~IsOk(end) THEN end
        ELSE IF Val(end) = None THEN Panic("end is not a local date")
        ELSE IF result_by_time.total = None THEN Panic("total is None")
        ELSE
    LET amortized_cost == Get(Unwrap(result_by_time.total), "AmortizedCost")
    IN  IF amortized_cost = None THEN Panic("no AmortizedCost")
        ELSE
    LET cost == CostFrom(Unwrap(amortized_cost))
    IN  IF ~IsOk(cost) THEN cost
        ELSE Ok([date_range |-> [start_date |-> Unwrap(Val(start)),
                                 end_date |-> Unwrap(Val(end))],
                 cost |-> Val(cost)])

\* impl From<Group> for ServiceCost
ServiceCostFrom(from) ==
    IF from.keys = None THEN Panic("keys is None")
    ELSE IF Unwrap(from.keys) = <<>> THEN Panic("keys is empty")
    ELSE IF from.metrics = None THEN Panic("metrics is None")
    ELSE
    LET amortized_cost == Get(Unwrap(from.metrics), "AmortizedCost")
    IN  IF amortized_cost = None THEN Panic("no AmortizedCost")
        ELSE
    LET cost == CostFrom(Unwrap(amortized_cost))
    IN  IF ~IsOk(cost) THEN cost
        ELSE Ok([service_name |-> Unwrap(from.keys)[1], cost |-> Val(cost)])

\* groups.iter().map(|x| x.clone().into()).collect(): the first group that
\* panics ends the whole conversion
\* slip: the collected costs come out in the opposite order
RECURSIVE CollectServiceCostsReversed(_)
CollectServiceCostsReversed(groups) ==
    IF groups = <<>> THEN Ok(<<>>)
    ELSE LET first == ServiceCostFrom(Head(groups))
         IN  IF ~IsOk(first) THEN first
             ELSE LET rest == CollectServiceCostsReversed(Tail(groups))
                  IN  IF ~IsOk(rest) THEN rest
                      ELSE Ok(Val(rest) \o <<Val(first)>>)

RECURSIVE CollectServiceCosts(_)
CollectServiceCosts(groups) ==
    IF groups = <<>> THEN Ok(<<>>)
    ELSE LET first == ServiceCostFrom(Head(groups))
         IN  IF ~IsOk(first) THEN first
             ELSE LET rest == CollectServiceCosts(Tail(groups))
                  IN  IF ~IsOk(rest) THEN rest
                      ELSE Ok(<<Val(first)>> \o Val(rest))

\* slip: absent groups are read as an empty list
ServiceCostFromResponseOrDefault(res) ==
    IF ~IsOk(FirstResultByTime(res)) THEN FirstResultByTime(res)
    ELSE LET result_by_time == Val(FirstResultByTime(res))
         IN  IF result_by_time.groups = None THEN Ok(<<>>)
             ELSE CollectServiceCosts(Unwrap(result_by_time.groups))

\* ServiceCost::from_response
ServiceCostFromResponse(res) ==
    IF ~IsOk(FirstResultByTime(res)) THEN FirstResultByTime(res)
    ELSE LET result_by_time == Val(FirstResultByTime(res))
         IN  IF result_by_time.groups = None THEN Panic("groups is None")
             ELSE CollectServiceCosts(Unwrap(result_by_time.groups))

\* ---------------------------------------------------- message_builder.rs
\* A rendered text is a sequence of tokens: single characters, and the
\* strings the program only carries (names, units) as one token each.
\* Stand-ins for the three non-ASCII pieces of the templates:
Bullet == "(U+30FB)"
InvoicePhrase == "(no seikyuugaku wa,)"
Desu == "(desu.)"

F32IsZero(a) == a.man = 0

F32MagLt(a, b) ==
    IF F32IsZero(a) THEN ~F32IsZero(b)
    ELSE IF F32IsZero(b) THEN FALSE
    ELSE a.exp < b.exp \/ (a.exp = b.exp /\ a.man < b.man)

\* a < b on f32 values that are not NaN
F32Lt(a, b) ==
    IF ~a.neg /\ ~b.neg THEN F32MagLt(a, b)
    ELSE IF a.neg /\ b.neg THEN F32MagLt(b, a)
    ELSE IF a.neg THEN ~(F32IsZero(a) /\ F32IsZero(b))
    ELSE FALSE

\* f32::partial_cmp: "less", "equal", "greater" or None
F32PartialCmp(a, b) ==
    IF a.kind = "nan" \/ b.kind = "nan" THEN None
    ELSE IF F32Lt(a, b) THEN Some("less")
    ELSE IF F32Lt(b, a) THEN Some("greater")
    ELSE Some("equal")

\* byte order of the unit strings of the model
UnitOrder == <<"EUR", "JPY", "USD">>
UnitRank(u) == CHOOSE i \in 1..Len(UnitOrder) : UnitOrder[i] = u

\* slip: only the amounts are compared
CostPartialCmpAmountOnly(a, b) == F32PartialCmp(a.amount, b.amount)

\* #[derive(PartialOrd)] on Cost: the amounts, then the units
CostPartialCmp(a, b) ==
    LET amounts == F32PartialCmp(a.amount, b.amount)
    IN  IF amounts # Some("equal") THEN amounts
        ELSE IF UnitRank(a.unit) < UnitRank(b.unit) THEN Some("less")
        ELSE IF UnitRank(a.unit) > UnitRank(b.unit) THEN Some("greater")
        ELSE Some("equal")

\* #[derive(PartialEq)]: f32 == (NaN differs from itself, 0.0 == -0.0), ...
F32Eq(a, b) ==
    /\ a.kind = "num"
    /\ b.kind = "num"
    /\ (F32IsZero(a) /\ F32IsZero(b)) \/ a = b

\* ... on Cost, ...
CostEq(a, b) == F32Eq(a.amount, b.amount) /\ a.unit = b.unit

\* ... on TotalCost and ReportedDateRange, ...
TotalCostEq(a, b) == a.date_range = b.date_range /\ CostEq(a.cost, b.cost)

\* ... on ServiceCost and on Vec<ServiceCost>
ServiceCostEq(a, b) ==
    a.service_name = b.service_name /\ CostEq(a.cost, b.cost)

ServiceCostsEq(a, b) ==
    /\ Len(a) = Len(b)
    /\ \A i \in DOMAIN a : ServiceCostEq(a[i], b[i])


\* the value in hundredths, rounded to nearest, ties to even
Cents(a) ==
    IF F32IsZero(a) THEN 0
    ELSE LET shift == 23 - a.exp
             scaled == a.man * 100
         IN  IF shift <= 0 THEN scaled * Pow2(0 - shift)
             ELSE IF shift > 31 THEN 0
             ELSE IF shift = 31 THEN (IF scaled > Pow2(30) THEN 1 ELSE 0)
             ELSE LET h == scaled \div Pow2(shift)
                      rem == scaled % Pow2(shift)
                      half == Pow2(shift - 1)
                  IN  IF rem > half \/ (rem = half /\ h % 2 = 1)
                      THEN h + 1 ELSE h

\* format!("{:.2}", amount)
FormatAmount(a) ==
    IF a.kind = "nan" THEN <<"N", "a", "N">>
    ELSE (IF a.neg THEN <<"-">> ELSE <<>>)
         \o NatToChars(Cents(a) \div 100) \o <<".">>
         \o ZeroPad(NatToChars(Cents(a) % 100), 2)

\* impl Display for Cost
DisplayCost(cost) == FormatAmount(cost.amount) \o <<" ", cost.unit>>

\* slip: month and day are written without padding
DisplayDateRangeUnpadded(range) ==
    NatToChars(range.start_date.month) \o <<"/">>
    \o NatToChars(range.start_date.day) \o <<"~">>
    \o NatToChars(range.end_date.month) \o <<"/">>
    \o NatToChars(range.end_date.day)

\* impl Display for ReportedDateRange
DisplayDateRange(range) ==
    ZeroPad(NatToChars(range.start_date.month), 2) \o <<"/">>
    \o ZeroPad(NatToChars(range.start_date.day), 2) \o <<"~">>
    \o ZeroPad(NatToChars(range.end_date.month), 2) \o <<"/">>
    \o ZeroPad(NatToChars(range.end_date.day), 2)

to_message_line(service_cost) ==
    <<Bullet, service_cost.service_name, ":", " ">>
    \o DisplayCost(service_cost.cost)

to_message_header(total) ==
    DisplayDateRange(total.date_range) \o <<InvoicePhrase>>
    \o DisplayCost(total.cost) \o <<Desu>>

\* slice::sort_by(|a, b| b.cost.partial_cmp(&a.cost).unwrap()): stable,
\* descending; it panics as soon as two costs cannot be compared, and every
\* element of a slice of two or more is compared at least once
CanSort(costs) ==
    Len(costs) < 2 \/ \A i \in DOMAIN costs : costs[i].cost.amount.kind # "nan"

\* x goes behind every element that is not smaller than it
RECURSIVE InsertDescending(_, _)
InsertDescending(sorted, x) ==
    IF sorted = <<>> THEN <<x>>
    ELSE IF CostPartialCmp(x.cost, Head(sorted).cost) = Some("greater")
    THEN <<x>> \o sorted
    ELSE <<Head(sorted)>> \o InsertDescending(Tail(sorted), x)

RECURSIVE SortDescending(_)
SortDescending(costs) ==
    IF costs = <<>> THEN <<>>
    ELSE InsertDescending(SortDescending(SubSeq(costs, 1, Len(costs) - 1)),
                          costs[Len(costs)])

ZeroUSD == <<"0", ".", "0", "0", " ", "USD">>

\* slip: no line is left out
RECURSIVE JoinLinesUnfiltered(_)
JoinLinesUnfiltered(costs) ==
    IF costs = <<>> THEN <<>>
    ELSE LET rest == JoinLinesUnfiltered(Tail(costs))
         IN  to_message_line(Head(costs))
             \o (IF rest = <<>> THEN <<>> ELSE <<"\n">> \o rest)

\* slip: every line, the last one too, is closed by a newline
RECURSIVE JoinLinesTerminated(_)
JoinLinesTerminated(costs) ==
    IF costs = <<>> THEN <<>>
    ELSE IF DisplayCost(Head(costs).cost) = ZeroUSD
    THEN JoinLinesTerminated(Tail(costs))
    ELSE to_message_line(Head(costs)) \o <<"\n">>
         \o JoinLinesTerminated(Tail(costs))

\* .filter(..).map(|x| x.to_message_line()).collect().join("\n")
RECURSIVE JoinLines(_)
JoinLines(costs) ==
    IF costs = <<>> THEN <<>>
    ELSE IF DisplayCost(Head(costs).cost) = ZeroUSD THEN JoinLines(Tail(costs))
    ELSE LET rest == JoinLines(Tail(costs))
         IN  to_message_line(Head(costs))
             \o (IF rest = <<>> THEN <<>> ELSE <<"\n">> \o rest)

NotificationMessageNew(total, services) ==
    IF ~CanSort(services) THEN Panic("partial_cmp is None")
    ELSE Ok([header |-> to_message_header(total),
             body |-> JoinLines(SortDescending(services))])


\* ------------------------------------------------------ slack_notifier.rs
\* slip: header and body share one section block
as_payload_merged(self) ==
    [blocks |-> <<
        [type |-> "section",
         fields |-> <<[type |-> "mrkdwn", text |-> self.header],
                      [type |-> "mrkdwn", text |-> self.body]>>]>>]

\* NotificationMessage::as_payload: the json! value, objects as records
\* and arrays as sequences
as_payload(self) ==
    [blocks |-> <<
        [type |-> "header",
         text |-> [type |-> "plain_text", text |-> self.header]],
        [type |-> "divider"],
        [type |-> "section",
         fields |-> <<[type |-> "mrkdwn", text |-> self.body]>>]>>]

\* ------------------------------------------- cost_explorer/test_utils.rs
\* impl From<InputServiceCost> for Group
GroupFromInput(input) ==
    [keys |-> Some(<<input.service_name>>),
     metrics |-> Some("AmortizedCost" :>
                        [amount |-> Some(input.cost), unit |-> Some("USD")])]

RECURSIVE GroupsFromInputs(_)
GroupsFromInputs(inputs) ==
    IF inputs = <<>> THEN <<>>
    ELSE <<GroupFromInput(Head(inputs))>> \o GroupsFromInputs(Tail(inputs))

prepare_sample_response(date_interval, total_amount, input_service_costs) ==
    LET total == "AmortizedCost" :>
                    [amount |-> total_amount, unit |-> Some("USD")]
        input_grouped_costs ==
            IF input_service_costs = None THEN None
            ELSE Some(GroupsFromInputs(Unwrap(input_service_costs)))
    IN  [results_by_time |->
            Some(<<[groups |-> input_grouped_costs,
                    time_period |-> date_interval,
                    total |-> Some(total)]>>)]

\* CostAndUsageClientStub::get_cost_and_usage
StubGetCostAndUsage(stub, input) ==
    IF input.group_by # None
    THEN Ok(prepare_sample_response(Some(input.time_period), None,
                                    stub.service_costs))
    ELSE Ok(prepare_sample_response(Some(input.time_period),
                                    stub.total_cost, None))

\* ------------------------------------------------------------ input sets
\* amount strings
A1234_56 == <<"1", "2", "3", "4", ".", "5", "6">>
A31415_92 == <<"3", "1", "4", "1", "5", ".", "9", "2">>
A0_005 == <<"0", ".", "0", "0", "5">>
ANotNumber == <<"a", "b", "c">>
ANaN == <<"N", "a", "N">>

\* timestamps that are not zero-padded YYYY-MM-DD
TsUnpadded == <<"2", "0", "2", "1", "-", "7", "-", "1">>
TsSlashes == <<"2", "0", "2", "1", "/", "0", "7", "/", "0", "1">>

\* reporting dates: every day of the ordinary years and of a few years at
\* the edges of the four-digit "%Y" form
Years == {-1, 0, 999, 9999, 10000} \cup (2020..MaxYear)

Dates ==
    {d \in [year : Years, month : 1..12, day : 1..31] :
        IsValidDate(d.year, d.month, d.day)}

\* responses handed to the parsers
Timestamps ==
    {FormatDate(Date(2021, 7, 1)), FormatDate(Date(2021, 7, 18)),
     TsUnpadded, TsSlashes}

TimePeriods ==
    {None} \cup {Some([start |-> s, end |-> e]) : s, e \in Timestamps}

MetricValues ==
    {[amount |-> a, unit |-> Some("USD")] :
        a \in {None, Some(A1234_56), Some(A0_005), Some(ANotNumber),
               Some(ANaN)}}
    \cup {[amount |-> Some(A1234_56), unit |-> None]}

Totals ==
    {None, Some(<<>>),
     Some("BlendedCost" :> [amount |-> Some(A1234_56), unit |-> Some("USD")])}
    \cup {Some("AmortizedCost" :> mv) : mv \in MetricValues}

S3 == [service_name |-> "Amazon Simple Storage Service", cost |-> A1234_56]
EC2 == [service_name |-> "Amazon Elastic Compute Cloud", cost |-> A31415_92]

Groups ==
    {GroupFromInput(S3), GroupFromInput(EC2),
     [GroupFromInput(S3) EXCEPT !.keys = Some(<<"Tax", "Amazon Simple Storage Service">>)],
     [GroupFromInput(S3) EXCEPT !.keys = None],
     GroupFromInput([service_name |-> "AWS CloudTrail", cost |-> ANotNumber])}

SeqsUpTo(S, n) == UNION {[1..k -> S] : k \in 0..n}

GroupLists == {None} \cup {Some(gs) : gs \in SeqsUpTo(Groups, MaxGroups)}

Buckets == [groups : GroupLists, time_period : TimePeriods, total : Totals]

\* a second time bucket, which the parsers never read
OtherBucket ==
    [groups |-> Some(<<GroupFromInput(EC2)>>),
     time_period |-> Some([start |-> FormatDate(Date(2021, 6, 1)),
                           end |-> FormatDate(Date(2021, 7, 1))]),
     total |-> Some("AmortizedCost" :>
                      [amount |-> Some(A31415_92), unit |-> Some("JPY")])]

Responses ==
    {[results_by_time |-> None], [results_by_time |-> Some(<<>>)]}
    \cup {[results_by_time |-> Some(<<b>>)] : b \in Buckets}
    \cup {[results_by_time |-> Some(<<b, OtherBucket>>)] : b \in Buckets}

NoResponse == [results_by_time |-> None]
NoRequests == [total |-> None, service |-> None]

\* ======================================================================
\* SpecRange: ReportDateRange::new, as_date_interval and the two requests
\* built from the range, for every reporting date.
\* ======================================================================
InitRange ==
    /\ mode = "range"
    /\ pc = "start"
    /\ reporting_date \in Dates
    /\ report_date_range = None
    /\ requests = NoRequests
    /\ reparsed = None
    /\ input_timestamp = None
    /\ response = NoResponse
    /\ total_cost = None
    /\ service_costs = None
    /\ calls = <<>>
    /\ replies = <<>>
    /\ message = None
    /\ posts = <<>>
    /\ slack_replies = <<>>
    /\ invocations = 1
    /\ client_call = None
    /\ entries = 0
    /\ forwarded = <<>>
    /\ returned = None
    /\ parsed_service_costs = None
    /\ payload = None
    /\ now = None
    /\ tz_string = None
    /\ actual_date = None
    /\ result = None

NewRange ==
    /\ mode = "range"
    /\ pc = "start"
    /\ report_date_range' = Some(ReportDateRangeNew(reporting_date))
    /\ pc' = "ranged"
    /\ UNCHANGED <<mode, client_call, entries, forwarded, returned,
                   parsed_service_costs, payload, now, tz_string, actual_date, invocations, slack_replies, input_timestamp, reporting_date, requests, reparsed, response,
                   total_cost, service_costs, calls, replies,
                   message, posts, result>>

BuildTotalRequest ==
    /\ mode = "range"
    /\ pc = "ranged"
    /\ requests.total = None
    /\ requests' = [requests EXCEPT !.total =
            Some(build_cost_and_usage_request(Unwrap(report_date_range), TRUE))]
    /\ UNCHANGED <<mode, client_call, entries, forwarded, returned,
                   parsed_service_costs, payload, now, tz_string, actual_date, invocations, slack_replies, input_timestamp, pc, reporting_date, report_date_range, reparsed,
                   response, total_cost, service_costs, calls, replies,
                   message, posts, result>>

BuildServiceRequest ==
    /\ mode = "range"
    /\ pc = "ranged"
    /\ requests.service = None
    /\ requests' = [requests EXCEPT !.service =
            Some(build_cost_and_usage_request(Unwrap(report_date_range), FALSE))]
    /\ UNCHANGED <<mode, client_call, entries, forwarded, returned,
                   parsed_service_costs, payload, now, tz_string, actual_date, invocations, slack_replies, input_timestamp, pc, reporting_date, report_date_range, reparsed,
                   response, total_cost, service_costs, calls, replies,
                   message, posts, result>>

\* the interval's two strings given back to parse_timestamp_into_local_date
ParseInterval ==
    /\ mode = "range"
    /\ pc = "ranged"
    /\ reparsed = None
    /\ \E interval \in {as_date_interval(Unwrap(report_date_range))} :
           reparsed' =
               Some([start |-> parse_timestamp_into_local_date(interval.start),
                     end |-> parse_timestamp_into_local_date(interval.end)])
    /\ UNCHANGED <<mode, client_call, entries, forwarded, returned,
                   parsed_service_costs, payload, now, tz_string, actual_date, invocations, slack_replies, input_timestamp, pc, reporting_date, report_date_range, requests,
                   response, total_cost, service_costs, calls, replies,
                   message, posts, result>>

NextRange == NewRange \/ BuildTotalRequest \/ BuildServiceRequest \/ ParseInterval

SpecRange == InitRange /\ [][NextRange]_vars

\* ======================================================================
\* SpecParser: TotalCost::from and ServiceCost::from_response applied to
\* a response.
\* ======================================================================
InitParser ==
    /\ mode = "parser"
    /\ pc = "start"
    /\ reporting_date = Date(2021, 7, 18)
    /\ report_date_range = None
    /\ requests = NoRequests
    /\ reparsed = None
    /\ input_timestamp = None
    /\ response \in Responses
    /\ total_cost = None
    /\ service_costs = None
    /\ calls = <<>>
    /\ replies = <<>>
    /\ message = None
    /\ posts = <<>>
    /\ slack_replies = <<>>
    /\ invocations = 1
    /\ client_call = None
    /\ entries = 0
    /\ forwarded = <<>>
    /\ returned = None
    /\ parsed_service_costs = None
    /\ payload = None
    /\ now = None
    /\ tz_string = None
    /\ actual_date = None
    /\ result = None

ParseTotal ==
    /\ mode = "parser"
    /\ total_cost = None
    /\ total_cost' = Some(TotalCostFrom(response))
    /\ UNCHANGED <<mode, client_call, entries, forwarded, returned,
                   parsed_service_costs, payload, now, tz_string, actual_date, invocations, slack_replies, input_timestamp, pc, reporting_date, report_date_range, requests,
                   reparsed, response, service_costs, calls, replies,
                   message, posts, result>>

ParseServices ==
    /\ mode = "parser"
    /\ service_costs = None
    /\ service_costs' = Some(ServiceCostFromResponse(response))
    /\ UNCHANGED <<mode, client_call, entries, forwarded, returned,
                   parsed_service_costs, payload, now, tz_string, actual_date, invocations, slack_replies, input_timestamp, pc, reporting_date, report_date_range, requests,
                   reparsed, response, total_cost, calls, replies,
                   message, posts, result>>

NextParser == ParseTotal \/ ParseServices

SpecParser == InitParser /\ [][NextParser]_vars

\* ----------------------------------------------------------------------
\* a caller that parses one response twice: TotalCost::from takes its
\* argument by value, so it is given a clone the first time;
\* ServiceCost::from_response borrows the response
InitReparse ==
    /\ mode = "reparse"
    /\ pc = "start"
    /\ reporting_date = Date(2021, 7, 18)
    /\ report_date_range = None
    /\ requests = NoRequests
    /\ reparsed = None
    /\ input_timestamp = None
    /\ response \in Responses
    /\ total_cost = None
    /\ service_costs = None
    /\ calls = <<>>
    /\ replies = <<>>
    /\ message = None
    /\ posts = <<>>
    /\ slack_replies = <<>>
    /\ invocations = 1
    /\ client_call = None
    /\ entries = 0
    /\ forwarded = <<>>
    /\ returned = None
    /\ parsed_service_costs = None
    /\ payload = None
    /\ now = None
    /\ tz_string = None
    /\ actual_date = None
    /\ result = None

\* the outcomes of n applications of the two parsers, in order
parse_times(res, n) ==
    [i \in 1..n |-> [total |-> TotalCostFrom(res),
                     services |-> ServiceCostFromResponse(res)]]

ParseTwice ==
    /\ mode = "reparse"
    /\ reparsed = None
    /\ \E parsed \in {parse_times(response, 2)} :
          /\ total_cost' = Some(parsed[1].total)
          /\ service_costs' = Some(parsed[1].services)
          /\ reparsed' = Some(parsed[2])
    /\ UNCHANGED <<mode, client_call, entries, forwarded, returned,
                   parsed_service_costs, payload, now, tz_string,
                   actual_date, invocations, slack_replies, input_timestamp,
                   pc, reporting_date, report_date_range, requests, response,
                   calls, replies, message, posts, result>>

NextReparse == ParseTwice

SpecReparse == InitReparse /\ [][NextReparse]_vars

\* ======================================================================
\* SpecTimestamp: parse_timestamp_into_local_date applied to a string.
\* ======================================================================
\* the pieces the strings are put together from
LeadTexts == {<<>>, <<" ">>}
YearTexts ==
    {<<"2", "0", "2", "1">>, <<"2", "0", "2", "0">>, <<"2", "1">>,
     <<"+", "2", "0", "2", "1">>, <<"2", "0", "2", "1", "0">>}
MonthTexts ==
    {<<"0", "2">>, <<"2">>, <<"1", "2">>, <<"1", "3">>, <<"0", "0">>,
     <<" ", "7">>}
DayTexts ==
    {<<"0", "1">>, <<"1">>, <<"2", "9">>, <<"3", "0">>, <<"3", "1">>,
     <<"3", "2">>, <<"0", "0", "1">>}
Separators == {"-", "/"}
TailTexts == {<<>>, <<" ">>, <<"T">>}

TimestampTexts ==
    {lead \o y \o <<sep>> \o m \o <<sep>> \o d \o rest :
        lead \in LeadTexts, y \in YearTexts, sep \in Separators,
        m \in MonthTexts, d \in DayTexts, rest \in TailTexts}

InitTimestamp ==
    /\ mode = "timestamp"
    /\ pc = "start"
    /\ reporting_date = Date(2021, 7, 18)
    /\ report_date_range = None
    /\ requests = NoRequests
    /\ reparsed = None
    /\ input_timestamp \in {Some(t) : t \in TimestampTexts}
    /\ response = NoResponse
    /\ total_cost = None
    /\ service_costs = None
    /\ calls = <<>>
    /\ replies = <<>>
    /\ message = None
    /\ posts = <<>>
    /\ slack_replies = <<>>
    /\ invocations = 1
    /\ client_call = None
    /\ entries = 0
    /\ forwarded = <<>>
    /\ returned = None
    /\ parsed_service_costs = None
    /\ payload = None
    /\ now = None
    /\ tz_string = None
    /\ actual_date = None
    /\ result = None

ParseTimestamp ==
    /\ mode = "timestamp"
    /\ reparsed = None
    /\ reparsed' = Some(parse_timestamp_into_local_date(Unwrap(input_timestamp)))
    /\ UNCHANGED <<mode, client_call, entries, forwarded, returned,
                   parsed_service_costs, payload, now, tz_string, actual_date, invocations, slack_replies, input_timestamp, pc, reporting_date, report_date_range,
                   requests, response, total_cost, service_costs, calls,
                   replies, message, posts, result>>

NextTimestamp == ParseTimestamp

SpecTimestamp == InitTimestamp /\ [][NextTimestamp]_vars

\* ======================================================================
\* Spec: one run of request_cost_and_notify (main.rs) against an injected
\* Cost Explorer client and an injected Slack client.
\* ======================================================================
RunDates ==
    {Date(2021, 8, 1), Date(2021, 7, 18), Date(2021, 1, 1), Date(2020, 3, 1),
     Date(2020, 2, 29)}

A0_01 == <<"0", ".", "0", "1">>
CloudTrail == [service_name |-> "AWS CloudTrail", cost |-> A0_01]
CostExplorer == [service_name |-> "AWS Cost Explorer", cost |-> A0_005]
Tax == [service_name |-> "Tax", cost |-> ANaN]

\* What the injected client does with one request.  "stub" is
\* CostAndUsageClientStub; the other kinds are a transport error and
\* responses that lack a section, carry another period or a second bucket.
ClientKinds ==
    {"stub", "error", "no_results", "empty_results", "no_time_period",
     "no_total", "no_metric", "swapped_period", "other_period",
     "two_buckets"}

Clients ==
    [kind : ClientKinds,
     total_cost : {None, Some(A1234_56), Some(ANotNumber), Some(ANaN)},
     service_costs : {None, Some(<<>>), Some(<<S3, EC2>>),
                      Some(<<CostExplorer, CloudTrail>>), Some(<<EC2, Tax>>)}]

\* request_cost_and_notify runs once per behaviour ("run") or once per
\* invocation of lambda_handler ("runs")
Running == mode \in {"run", "runs"}

\* reporting dates and clients of the behaviours with several invocations
RerunDates == {Date(2021, 8, 1), Date(2021, 7, 18)}

RerunClients ==
    [kind : {"stub", "error"},
     total_cost : {None, Some(A1234_56)},
     service_costs : {None, Some(<<S3, EC2>>)}]

\* lambda_handler builds its clients anew at every invocation
InjectedClients == IF mode = "runs" THEN RerunClients ELSE Clients

\* the stub's response for this request, which the other kinds damage
Sample(client, input) ==
    prepare_sample_response(Some(input.time_period), client.total_cost,
                            client.service_costs)

Bucket(res) == Unwrap(res.results_by_time)[1]

WithBucket(res, bucket) == [results_by_time |-> Some(<<bucket>>)]

\* GetCostAndUsage::get_cost_and_usage of the injected client
get_cost_and_usage(client, input) ==
    LET sample == Sample(client, input)
        bucket == Bucket(sample)
    IN  CASE client.kind = "stub" -> StubGetCostAndUsage(client, input)
          [] client.kind = "error" -> Err("RusotoError")
          [] client.kind = "no_results" -> Ok([results_by_time |-> None])
          [] client.kind = "empty_results" -> Ok([results_by_time |-> Some(<<>>)])
          [] client.kind = "no_time_period" ->
                Ok(WithBucket(sample, [bucket EXCEPT !.time_period = None]))
          [] client.kind = "no_total" ->
                Ok(WithBucket(sample, [bucket EXCEPT !.total = None]))
          [] client.kind = "no_metric" ->
                Ok(WithBucket(sample, [bucket EXCEPT
                    !.total = Some("BlendedCost" :> Unwrap(@)["AmortizedCost"])]))
          [] client.kind = "swapped_period" ->
                Ok(WithBucket(sample, [bucket EXCEPT
                    !.time_period = Some([start |-> input.time_period.end,
                                          end |-> input.time_period.start])]))
          [] client.kind = "other_period" ->
                Ok(WithBucket(sample, [bucket EXCEPT
                    !.time_period = OtherBucket.time_period]))
          [] client.kind = "two_buckets" ->
                Ok([results_by_time |-> Some(<<bucket, OtherBucket>>)])

\* slip: a failed call is issued a second time
request_total_cost_retry(client, range) ==
    LET request == build_cost_and_usage_request(range, TRUE)
        res == get_cost_and_usage(client, request)
    IN  [sent |-> IF IsOk(res) THEN <<request>> ELSE <<request, request>>,
         received |-> IF IsOk(res) THEN <<res>> ELSE <<res, res>>,
         outcome |-> IF IsOk(res) THEN TotalCostFrom(Val(res))
                     ELSE Panic("get_cost_and_usage failed")]

\* slip: the TotalCost carries the requested range instead of the period
\* of the response
request_total_cost_requested_range(client, range) ==
    LET request == build_cost_and_usage_request(range, TRUE)
        res == get_cost_and_usage(client, request)
        parsed == IF IsOk(res) THEN TotalCostFrom(Val(res))
                  ELSE Panic("get_cost_and_usage failed")
    IN  [sent |-> <<request>>,
         received |-> <<res>>,
         outcome |-> IF IsOk(parsed)
                     THEN Ok([Val(parsed) EXCEPT !.date_range = range])
                     ELSE parsed]

\* CostExplorerService::request_total_cost: what is sent to the client,
\* what comes back and the outcome of the call
request_total_cost(client, range) ==
    LET request == build_cost_and_usage_request(range, TRUE)
        res == get_cost_and_usage(client, request)
    IN  [sent |-> <<request>>,
         received |-> <<res>>,
         outcome |-> IF IsOk(res) THEN TotalCostFrom(Val(res))
                     ELSE Panic("get_cost_and_usage failed")]

\* CostExplorerService::request_service_costs
request_service_costs(client, range) ==
    LET request == build_cost_and_usage_request(range, FALSE)
        res == get_cost_and_usage(client, request)
    IN  [sent |-> <<request>>,
         received |-> <<res>>,
         outcome |-> IF IsOk(res) THEN ServiceCostFromResponse(Val(res))
                     ELSE Panic("get_cost_and_usage failed")]

Init ==
    /\ mode = "run"
    /\ pc = "start"
    /\ reporting_date \in RunDates
    /\ report_date_range = None
    /\ requests = NoRequests
    /\ reparsed = None
    /\ input_timestamp = None
    /\ response = NoResponse
    /\ total_cost = None
    /\ service_costs = None
    /\ calls = <<>>
    /\ replies = <<>>
    /\ message = None
    /\ posts = <<>>
    /\ slack_replies = <<>>
    /\ invocations = 1
    /\ client_call = None
    /\ entries = 0
    /\ forwarded = <<>>
    /\ returned = None
    /\ parsed_service_costs = None
    /\ payload = None
    /\ now = None
    /\ tz_string = None
    /\ actual_date = None
    /\ result = None

\* main.rs:61-63
Start ==
    /\ Running
    /\ pc = "start"
    /\ report_date_range' = Some(ReportDateRangeNew(reporting_date))
    /\ pc' = "total"
    /\ UNCHANGED <<mode, client_call, entries, forwarded, returned,
                   parsed_service_costs, payload, now, tz_string, actual_date, invocations, slack_replies, input_timestamp, reporting_date, requests, reparsed, response,
                   total_cost, service_costs, calls, replies, message, posts,
                   result>>

\* slip: the run goes on to the service request after a failed total
RequestTotalCostThenServicesAnyway ==
    /\ Running
    /\ pc = "total"
    /\ \E client \in InjectedClients :
        \E call \in {request_total_cost(client, Unwrap(report_date_range))} :
            /\ calls' = calls \o call.sent
            /\ replies' = replies \o call.received
            /\ total_cost' = Some(call.outcome)
            /\ pc' = "service"
    /\ UNCHANGED <<mode, client_call, entries, forwarded, returned,
                   parsed_service_costs, payload, now, tz_string,
                   actual_date, invocations, slack_replies, input_timestamp,
                   reporting_date, report_date_range, requests, reparsed,
                   response, service_costs, message, posts, result>>

\* main.rs:64
RequestTotalCost ==
    /\ Running
    /\ pc = "total"
    /\ \E client \in InjectedClients :
        \E call \in {request_total_cost(client, Unwrap(report_date_range))} :
            /\ calls' = calls \o call.sent
            /\ replies' = replies \o call.received
            /\ total_cost' = Some(call.outcome)
            /\ pc' = IF IsOk(call.outcome) THEN "service" ELSE "panicked"
    /\ UNCHANGED <<mode, client_call, entries, forwarded, returned,
                   parsed_service_costs, payload, now, tz_string, actual_date, invocations, slack_replies, input_timestamp, reporting_date, report_date_range, requests,
                   reparsed, response, service_costs, message, posts, result>>

\* main.rs:65
RequestServiceCosts ==
    /\ Running
    /\ pc = "service"
    /\ \E client \in InjectedClients :
        \E call \in {request_service_costs(client, Unwrap(report_date_range))} :
            /\ calls' = calls \o call.sent
            /\ replies' = replies \o call.received
            /\ service_costs' = Some(call.outcome)
            /\ pc' = IF IsOk(call.outcome) THEN "notify" ELSE "panicked"
    /\ UNCHANGED <<mode, client_call, entries, forwarded, returned,
                   parsed_service_costs, payload, now, tz_string, actual_date, invocations, slack_replies, input_timestamp, reporting_date, report_date_range, requests,
                   reparsed, response, total_cost, message, posts, result>>

\* PostToSlack::post of the injected Slack client answers Ok or Err
\* (SlackClientStub in main.rs)
SlackReplies == {"Ok", "Err"}

\* slip: a post that failed is attempted a second time
send_message_to_slack_retry(reply, notification_message) ==
    [posted |-> IF reply = "Ok" THEN <<notification_message>>
                ELSE <<notification_message, notification_message>>,
     replies |-> IF reply = "Ok" THEN <<reply>> ELSE <<reply, reply>>,
     res |-> reply]

\* slack_notifier::send_message_to_slack(slack_client, message): the
\* message is posted once and the client's answer is the result
send_message_to_slack(reply, notification_message) ==
    [posted |-> <<notification_message>>,
     replies |-> <<reply>>,
     res |-> reply]

\* slip: after a failed service request the header alone is posted
NotifyPartial ==
    /\ Running
    /\ pc \in {"notify", "panicked"}
    /\ total_cost # None
    /\ IsOk(Unwrap(total_cost))
    /\ service_costs # None
    /\ posts = <<>>
    /\ message' = Some(NotificationMessageNew(Val(Unwrap(total_cost)), <<>>))
    /\ posts' = <<Val(message'[1])>>
    /\ slack_replies' = <<"Ok">>
    /\ pc' = "done"
    /\ result' = Some("Ok")
    /\ UNCHANGED <<mode, client_call, entries, forwarded, returned,
                   parsed_service_costs, payload, now, tz_string, actual_date, invocations, input_timestamp, reporting_date, report_date_range,
                   requests, reparsed, response, total_cost, service_costs,
                   calls, replies>>

\* slip: the message is built before the service costs are looked at
NotifyTotalOnly ==
    /\ Running
    /\ pc = "notify"
    /\ \E built \in {NotificationMessageNew(Val(Unwrap(total_cost)), <<>>)} :
           /\ message' = Some(built)
           /\ pc' = "done"
           /\ \E reply \in SlackReplies :
                \E sent \in {send_message_to_slack(reply, Val(built))} :
                   /\ posts' = posts \o sent.posted
                   /\ slack_replies' = slack_replies \o sent.replies
                   /\ result' = Some(sent.res)
    /\ UNCHANGED <<mode, client_call, entries, forwarded, returned,
                   parsed_service_costs, payload, now, tz_string, actual_date, invocations, input_timestamp, reporting_date, report_date_range,
                   requests, reparsed, response, total_cost, service_costs,
                   calls, replies>>

\* slip: a message that was already posted is not posted again
NotifyDeduplicated ==
    /\ Running
    /\ pc = "notify"
    /\ \E built \in {NotificationMessageNew(Val(Unwrap(total_cost)),
                                             Val(Unwrap(service_costs)))} :
           /\ message' = Some(built)
           /\ IF IsPanic(built)
              THEN /\ pc' = "panicked"
                   /\ UNCHANGED <<posts, slack_replies, result>>
              ELSE IF \E i \in DOMAIN posts : posts[i] = Val(built)
              THEN /\ pc' = "done"
                   /\ result' = Some("Ok")
                   /\ UNCHANGED <<posts, slack_replies>>
              ELSE /\ pc' = "done"
                   /\ \E reply \in SlackReplies :
                        \E sent \in {send_message_to_slack(reply, Val(built))} :
                           /\ posts' = posts \o sent.posted
                           /\ slack_replies' = slack_replies \o sent.replies
                           /\ result' = Some(sent.res)
    /\ UNCHANGED <<mode, client_call, entries, forwarded, returned,
                   parsed_service_costs, payload, now, tz_string, actual_date, invocations, input_timestamp, reporting_date,
                   report_date_range, requests, reparsed, response,
                   total_cost, service_costs, calls, replies>>

\* main.rs:67-77: the message is built, handed to the Slack client once,
\* and the outcome of the post decides the result
Notify ==
    /\ Running
    /\ pc = "notify"
    /\ \E built \in {NotificationMessageNew(Val(Unwrap(total_cost)),
                                             Val(Unwrap(service_costs)))} :
           /\ message' = Some(built)
           /\ IF IsPanic(built)
              THEN /\ pc' = "panicked"
                   /\ UNCHANGED <<posts, slack_replies, result>>
              ELSE /\ pc' = "done"
                   /\ \E reply \in SlackReplies :
                        \E sent \in {send_message_to_slack(reply, Val(built))} :
                           /\ posts' = posts \o sent.posted
                           /\ slack_replies' = slack_replies \o sent.replies
                           /\ result' = Some(sent.res)
    /\ UNCHANGED <<mode, client_call, entries, forwarded, returned,
                   parsed_service_costs, payload, now, tz_string, actual_date, invocations, input_timestamp, reporting_date, report_date_range, requests,
                   reparsed, response, total_cost, service_costs, calls,
                   replies>>

Next == Start \/ RequestTotalCost \/ RequestServiceCosts \/ Notify

Spec == Init /\ [][Next]_vars

\* ======================================================================
\* SpecRuns: lambda_handler invoked up to MaxRuns times, each invocation
\* one run of request_cost_and_notify.
\* ======================================================================
InitRuns ==
    /\ mode = "runs"
    /\ pc = "start"
    /\ reporting_date \in RerunDates
    /\ report_date_range = None
    /\ requests = NoRequests
    /\ reparsed = None
    /\ input_timestamp = None
    /\ response = NoResponse
    /\ total_cost = None
    /\ service_costs = None
    /\ calls = <<>>
    /\ replies = <<>>
    /\ message = None
    /\ posts = <<>>
    /\ slack_replies = <<>>
    /\ invocations = 1
    /\ client_call = None
    /\ entries = 0
    /\ forwarded = <<>>
    /\ returned = None
    /\ parsed_service_costs = None
    /\ payload = None
    /\ now = None
    /\ tz_string = None
    /\ actual_date = None
    /\ result = None

\* main.rs:31-45: the next invocation starts from fresh locals; what the
\* outside world has received (requests, posts) stays as it is
Invoke ==
    /\ mode = "runs"
    /\ pc \in {"done", "panicked"}
    /\ invocations < MaxRuns
    /\ invocations' = invocations + 1
    /\ reporting_date' \in RerunDates
    /\ pc' = "start"
    /\ report_date_range' = None
    /\ total_cost' = None
    /\ service_costs' = None
    /\ message' = None
    /\ result' = None
    /\ UNCHANGED <<mode, client_call, entries, forwarded, returned,
                   parsed_service_costs, payload, now, tz_string, actual_date, requests, reparsed, input_timestamp, response,
                   calls, replies, posts, slack_replies>>

NextRuns ==
    Start \/ RequestTotalCost \/ RequestServiceCosts \/ Notify \/ Invoke

SpecRuns == InitRuns /\ [][NextRuns]_vars

\* ======================================================================
\* SpecTimezone: date_in_specified_timezone applied to an instant and a
\* timezone name.
\* ======================================================================
Instants ==
    [date : {Date(2021, 7, 31), Date(2021, 12, 31), Date(2021, 1, 1),
             Date(2020, 2, 28), Date(2020, 2, 29), Date(2021, 2, 28),
             Date(2021, 3, 1)},
     minute : {60 * h + m : h \in 0..23, m \in {0, 45}},
     offset : {0, 540}]

TzStrings == TzNames \cup {"Invalid/Timezone", ""}

InitTimezone ==
    /\ mode = "timezone"
    /\ pc = "start"
    /\ reporting_date = Date(2021, 7, 18)
    /\ report_date_range = None
    /\ requests = NoRequests
    /\ reparsed = None
    /\ input_timestamp = None
    /\ response = NoResponse
    /\ total_cost = None
    /\ service_costs = None
    /\ calls = <<>>
    /\ replies = <<>>
    /\ message = None
    /\ posts = <<>>
    /\ slack_replies = <<>>
    /\ invocations = 1
    /\ client_call = None
    /\ entries = 0
    /\ forwarded = <<>>
    /\ returned = None
    /\ parsed_service_costs = None
    /\ payload = None
    /\ now \in {Some(i) : i \in Instants}
    /\ tz_string \in {Some(name) : name \in TzStrings}
    /\ actual_date = None
    /\ result = None

ConvertTimezone ==
    /\ mode = "timezone"
    /\ actual_date = None
    /\ actual_date' =
         Some(date_in_specified_timezone(Unwrap(now), Unwrap(tz_string)))
    /\ UNCHANGED <<mode, client_call, entries, forwarded, returned,
                   parsed_service_costs, payload, now, tz_string, invocations, slack_replies,
                   input_timestamp, pc, reporting_date, report_date_range,
                   requests, reparsed, response, total_cost, service_costs,
                   calls, replies, message, posts, result>>

NextTimezone == ConvertTimezone

SpecTimezone == InitTimezone /\ [][NextTimezone]_vars

\* ======================================================================
\* CostAndUsageClient::get_cost_and_usage, in the two files that define it
\* ======================================================================
\* bound on the nested entries of one call
MaxDepth == 3

ClientSources == {"cost_usage_client.rs", "cost_explorer/cost_usage_client.rs"}

\* requests given to the wrapper
ClientInputs ==
    {build_cost_and_usage_request(ReportDateRangeNew(date), is_total) :
        date \in RunDates, is_total \in BOOLEAN}

\* a call: the file of the wrapper, the request, and the wrapped
\* CostExplorerClient (what it answers is get_cost_and_usage of `wrapped`)
ClientCalls ==
    [source : ClientSources, input : ClientInputs, wrapped : RerunClients]

InitClient ==
    /\ mode = "client"
    /\ response = NoResponse
    /\ client_call \in {Some(call) : call \in ClientCalls}
    /\ entries = 0
    /\ forwarded = <<>>
    /\ returned = None
    /\ parsed_service_costs = None
    /\ payload = None
    /\ pc = "start"
    /\ reporting_date = Date(2021, 7, 18)
    /\ report_date_range = None
    /\ requests = NoRequests
    /\ reparsed = None
    /\ input_timestamp = None
    /\ total_cost = None
    /\ service_costs = None
    /\ calls = <<>>
    /\ replies = <<>>
    /\ message = None
    /\ posts = <<>>
    /\ slack_replies = <<>>
    /\ invocations = 1
    /\ now = None
    /\ tz_string = None
    /\ actual_date = None
    /\ result = None

\* src/src/cost_explorer/cost_usage_client.rs:33-43: the body hands the
\* request to self.0 and returns what it answers
ForwardToWrappedClient ==
    /\ mode = "client"
    /\ Unwrap(client_call).source = "cost_explorer/cost_usage_client.rs"
    /\ entries = 0
    /\ entries' = 1
    /\ forwarded' = forwarded \o <<Unwrap(client_call).input>>
    /\ returned' = Some(get_cost_and_usage(Unwrap(client_call).wrapped,
                                           Unwrap(client_call).input))
    /\ UNCHANGED <<mode, client_call, parsed_service_costs, payload, now,
                   tz_string, actual_date, invocations, slack_replies,
                   input_timestamp, pc, reporting_date, report_date_range,
                   requests, reparsed, response, total_cost, service_costs,
                   calls, replies, message, posts, result>>

\* src/src/cost_usage_client.rs:25-33: the body calls get_cost_and_usage on
\* self, which is this same method: each entry makes one more entry and
\* nothing reaches self.0
CallSelf ==
    /\ mode = "client"
    /\ Unwrap(client_call).source = "cost_usage_client.rs"
    /\ entries < MaxDepth
    /\ entries' = entries + 1
    /\ UNCHANGED <<mode, client_call, forwarded, returned,
                   parsed_service_costs, payload, now,
                   tz_string, actual_date, invocations, slack_replies,
                   input_timestamp, pc, reporting_date, report_date_range,
                   requests, reparsed, response, total_cost, service_costs,
                   calls, replies, message, posts, result>>

NextClient == ForwardToWrappedClient \/ CallSelf

SpecClient == InitClient /\ [][NextClient]_vars

\* ======================================================================
\* total_cost.rs
\* ======================================================================
\* total_cost.rs:57-63: the vector is a literal, `res` is not read
parse_service_costs(res) ==
    <<[service_name |-> "Amazon Simple Storage Service",
       cost |-> F32(FALSE, 10, 10113516),
       unit |-> "USD"]>>

InitTotalCost ==
    /\ mode = "total_cost"
    /\ response \in Responses
    /\ client_call = None
    /\ entries = 0
    /\ forwarded = <<>>
    /\ returned = None
    /\ parsed_service_costs = None
    /\ payload = None
    /\ pc = "start"
    /\ reporting_date = Date(2021, 7, 18)
    /\ report_date_range = None
    /\ requests = NoRequests
    /\ reparsed = None
    /\ input_timestamp = None
    /\ total_cost = None
    /\ service_costs = None
    /\ calls = <<>>
    /\ replies = <<>>
    /\ message = None
    /\ posts = <<>>
    /\ slack_replies = <<>>
    /\ invocations = 1
    /\ now = None
    /\ tz_string = None
    /\ actual_date = None
    /\ result = None

ParseServiceCosts ==
    /\ mode = "total_cost"
    /\ parsed_service_costs = None
    /\ parsed_service_costs' = Some(parse_service_costs(response))
    /\ UNCHANGED <<mode, client_call, entries, forwarded, returned, payload,
                   now, tz_string, actual_date, invocations, slack_replies,
                   input_timestamp, pc, reporting_date, report_date_range,
                   requests, reparsed, response, total_cost, service_costs,
                   calls, replies, message, posts, result>>

NextTotalCost == ParseServiceCosts

SpecTotalCost == InitTotalCost /\ [][NextTotalCost]_vars

\* ======================================================================
\* SpecMessage: NotificationMessage::new applied to a total cost and a list
\* of service costs.
\* ======================================================================
A0_001 == <<"0", ".", "0", "0", "1">>
A0_006 == <<"0", ".", "0", "0", "6">>
AMinus0_001 == <<"-", "0", ".", "0", "0", "1">>
A1_6234 == <<"1", ".", "6", "2", "3", "4">>

\* the f32 of a literal such as `amount: 1234.56`
Amount(literal) == Val(ParseF32(literal))

NewServiceCost(service_name, literal, unit) ==
    [service_name |-> service_name,
     cost |-> [amount |-> Amount(literal), unit |-> unit]]

MessageServiceCosts ==
    {NewServiceCost("Amazon Simple Storage Service", A1234_56, "USD"),
     NewServiceCost("Amazon Elastic Compute Cloud", A31415_92, "USD"),
     NewServiceCost("AWS CloudTrail", A0_01, "USD"),
     NewServiceCost("AWS Cost Explorer", A0_005, "USD"),
     NewServiceCost("AWS Lambda", A0_001, "USD"),
     NewServiceCost("Amazon Route 53", A0_006, "USD"),
     NewServiceCost("Refund", AMinus0_001, "USD"),
     NewServiceCost("AWS Support", A1234_56, "JPY"),
     NewServiceCost("Amazon Glacier", A1234_56, "USD"),
     NewServiceCost("Amazon DynamoDB", A0_001, "JPY"),
     NewServiceCost("Tax", ANaN, "USD")}

MessageDateRanges ==
    {[start_date |-> Date(2021, 7, 1), end_date |-> Date(2021, 7, 18)],
     [start_date |-> Date(2020, 12, 1), end_date |-> Date(2021, 1, 1)]}

MessageTotalCosts ==
    [date_range : MessageDateRanges,
     cost : {[amount |-> Amount(A1234_56), unit |-> "USD"],
             [amount |-> Amount(A0_001), unit |-> "USD"],
             [amount |-> Amount(A1_6234), unit |-> "JPY"],
             [amount |-> Amount(ANaN), unit |-> "USD"]}]

InitMessage ==
    /\ mode = "message"
    /\ pc = "start"
    /\ reporting_date = Date(2021, 7, 18)
    /\ report_date_range = None
    /\ requests = NoRequests
    /\ reparsed = None
    /\ input_timestamp = None
    /\ response = NoResponse
    /\ total_cost \in {Some(Ok(t)) : t \in MessageTotalCosts}
    /\ service_costs \in
         {Some(Ok(l)) : l \in SeqsUpTo(MessageServiceCosts, MaxGroups)}
    /\ calls = <<>>
    /\ replies = <<>>
    /\ message = None
    /\ posts = <<>>
    /\ slack_replies = <<>>
    /\ invocations = 1
    /\ client_call = None
    /\ entries = 0
    /\ forwarded = <<>>
    /\ returned = None
    /\ parsed_service_costs = None
    /\ payload = None
    /\ now = None
    /\ tz_string = None
    /\ actual_date = None
    /\ result = None

BuildMessage ==
    /\ mode = "message"
    /\ message = None
    /\ message' = Some(NotificationMessageNew(Val(Unwrap(total_cost)),
                                              Val(Unwrap(service_costs))))
    /\ UNCHANGED <<mode, client_call, entries, forwarded, returned,
                   parsed_service_costs, payload, now, tz_string, actual_date, invocations, slack_replies, input_timestamp, pc, reporting_date,
                   report_date_range, requests, reparsed, response,
                   total_cost, service_costs, calls, replies, posts, result>>

\* slack_notifier.rs:5-33, applied to a message that was built
AsPayload ==
    /\ mode = "message"
    /\ message # None
    /\ IsOk(Unwrap(message))
    /\ payload = None
    /\ payload' = Some(as_payload(Val(Unwrap(message))))
    /\ UNCHANGED <<mode, client_call, entries, forwarded, returned,
                   parsed_service_costs, now, tz_string, actual_date,
                   invocations, slack_replies, input_timestamp, pc,
                   reporting_date, report_date_range, requests, reparsed,
                   response, total_cost, service_costs, calls, replies,
                   message, posts, result>>

NextMessage == BuildMessage \/ AsPayload

SpecMessage == InitMessage /\ [][NextMessage]_vars

\* ======================================================================
\* Properties
\* ======================================================================
FirstOfMonth(date) == Date(date.year, date.month, 1)

FirstOfPreviousMonth(date) ==
    IF date.month = 1 THEN Date(date.year - 1, 12, 1)
    ELSE Date(date.year, date.month - 1, 1)

\* C1: a reporting date that is not the 1st of its month gives the range
\* from the 1st of the same month and year to the reporting date itself.
C1_MidMonthRange ==
    (report_date_range # None /\ reporting_date.day # 1) =>
        Unwrap(report_date_range) =
            [start_date |-> FirstOfMonth(reporting_date),
             end_date |-> reporting_date]

C1_Witness ==
    /\ reporting_date = Date(2021, 7, 18)
    /\ report_date_range =
         Some([start_date |-> Date(2021, 7, 1), end_date |-> Date(2021, 7, 18)])

\* C2: a reporting date that is the 1st of a month gives the range from the
\* 1st of the previous calendar month (December of the year before for
\* January 1st) to the reporting date itself.
C2_FirstDayRange ==
    (report_date_range # None /\ reporting_date.day = 1) =>
        Unwrap(report_date_range) =
            [start_date |-> FirstOfPreviousMonth(reporting_date),
             end_date |-> reporting_date]

C2_Witness ==
    /\ reporting_date = Date(2021, 1, 1)
    /\ report_date_range =
         Some([start_date |-> Date(2020, 12, 1), end_date |-> Date(2021, 1, 1)])

TotalParsed == total_cost # None /\ IsOk(Unwrap(total_cost))
ServicesParsed == service_costs # None /\ IsOk(Unwrap(service_costs))
ParsedRange == Val(Unwrap(total_cost)).date_range

\* C3 as stated: the date range of every TotalCost that TotalCost::from
\* builds has start_date <= end_date.
C3_EveryParsedRangeOrdered ==
    TotalParsed => DateLe(ParsedRange.start_date, ParsedRange.end_date)

\* C3 amended: TotalCost::from copies the two dates of the response without
\* comparing them, so the range has start_date <= end_date when the response
\* carries the interval of the request, which comes from a computed
\* ReportDateRange; the computed range itself is ordered.
C3_EchoedRangeOrdered ==
    /\ report_date_range # None =>
         DateLe(Unwrap(report_date_range).start_date,
                Unwrap(report_date_range).end_date)
    /\ (TotalParsed
        /\ Bucket(Val(replies[1])).time_period = Some(calls[1].time_period)) =>
         /\ DateLe(ParsedRange.start_date, ParsedRange.end_date)
         /\ ParsedRange = Unwrap(report_date_range)

C3_Witness ==
    /\ TotalParsed
    /\ Bucket(Val(replies[1])).time_period = Some(calls[1].time_period)
    /\ reporting_date = Date(2021, 7, 18)

\* C4: the start and end strings of as_date_interval, parsed back by
\* parse_timestamp_into_local_date, are the range's start_date and end_date.
C4_IntervalRoundTrip ==
    reparsed # None =>
        Unwrap(reparsed) =
            [start |-> Ok(Some(Unwrap(report_date_range).start_date)),
             end |-> Ok(Some(Unwrap(report_date_range).end_date))]

C4_Witness ==
    /\ reparsed # None
    /\ reporting_date = Date(0, 1, 1)
    /\ Unwrap(reparsed).start = Ok(Some(Date(-1, 12, 1)))

ServiceGrouping == <<[type_ |-> Some("DIMENSION"), key |-> Some("SERVICE")]>>

\* C5: the total request and the service request of one range are equal in
\* every field but group_by, which is None for the total request and the
\* single definition DIMENSION/SERVICE for the service request.
C5_RequestsDifferInGroupBy ==
    (requests.total # None /\ requests.service # None) =>
        /\ [Unwrap(requests.total) EXCEPT !.group_by = None]
             = [Unwrap(requests.service) EXCEPT !.group_by = None]
        /\ Unwrap(requests.total).group_by = None
        /\ Unwrap(requests.service).group_by = Some(ServiceGrouping)

C5_Witness ==
    /\ requests.total # None
    /\ requests.service # None
    /\ reporting_date = Date(2021, 7, 23)

FixedParameters(request, range) ==
    /\ request.granularity = "MONTHLY"
    /\ request.metrics = <<"AmortizedCost">>
    /\ request.filter = None
    /\ request.next_page_token = None
    /\ request.time_period.start = FormatDate(range.start_date)
    /\ request.time_period.end = FormatDate(range.end_date)

\* C6: every request built from a range is MONTHLY, asks for the single
\* metric AmortizedCost, has no filter and no page token, and carries the
\* interval of that range.
C6_FixedRequestParameters ==
    /\ requests.total # None =>
         FixedParameters(Unwrap(requests.total), Unwrap(report_date_range))
    /\ requests.service # None =>
         FixedParameters(Unwrap(requests.service), Unwrap(report_date_range))

C6_Witness ==
    /\ requests.total # None
    /\ requests.service # None
    /\ reporting_date = Date(2021, 8, 1)
    /\ Unwrap(requests.service).time_period =
         [start |-> FormatDate(Date(2021, 7, 1)),
          end |-> FormatDate(Date(2021, 8, 1))]

Finished(outcome) == IF outcome = None THEN 0 ELSE 1

\* C7: each of request_total_cost and request_service_costs reaches the
\* client exactly once, and a call that returned an error is the last one
\* of the run: the run has failed and nothing was posted.
C7_OneCallNoRetry ==
    /\ Len(calls) = Finished(total_cost) + Finished(service_costs)
    /\ Len(replies) = Len(calls)
    /\ \A i \in DOMAIN calls : (calls[i].group_by = None) <=> (i = 1)
    /\ \A i \in DOMAIN replies :
         ~IsOk(replies[i]) =>
            /\ i = Len(calls)
            /\ pc = "panicked"
            /\ posts = <<>>
            /\ result = None

C7_Witness ==
    /\ Len(calls) = 2
    /\ IsOk(replies[1])
    /\ ~IsOk(replies[2])
    /\ pc = "panicked"

KnownDates == {Date(2021, 7, 1), Date(2021, 7, 18)}
DateNamed(timestamp) == CHOOSE d \in KnownDates : FormatDate(d) = timestamp
IsStrictTimestamp(timestamp) == \E d \in KnownDates : FormatDate(d) = timestamp

\* the f32 nearest to 1234.56, to 31415.92 and to 0.005
AmountNamed(amount) ==
    CASE amount = A1234_56 -> F32(FALSE, 10, 10113516)
      [] amount = A31415_92 -> F32(FALSE, 14, 16084951)
      [] amount = A0_005 -> F32(FALSE, -8, 10737418)
IsNumeric(amount) == amount \in {A1234_56, A31415_92, A0_005}

WellFormedMetric(metrics) ==
    /\ metrics # None
    /\ "AmortizedCost" \in DOMAIN Unwrap(metrics)
    /\ Unwrap(metrics)["AmortizedCost"].amount # None
    /\ IsNumeric(Unwrap(Unwrap(metrics)["AmortizedCost"].amount))
    /\ Unwrap(metrics)["AmortizedCost"].unit # None

CostNamed(metrics) ==
    [amount |-> AmountNamed(Unwrap(Unwrap(metrics)["AmortizedCost"].amount)),
     unit |-> Unwrap(Unwrap(metrics)["AmortizedCost"].unit)]

HasBucket(res) == res.results_by_time # None /\ Unwrap(res.results_by_time) # <<>>

WellFormedTotal(res) ==
    /\ HasBucket(res)
    /\ Bucket(res).time_period # None
    /\ IsStrictTimestamp(Unwrap(Bucket(res).time_period).start)
    /\ IsStrictTimestamp(Unwrap(Bucket(res).time_period).end)
    /\ WellFormedMetric(Bucket(res).total)

\* C8: a response whose first time bucket has YYYY-MM-DD start and end and
\* a numeric AmortizedCost total with a unit parses to the TotalCost of those
\* two dates, that amount and that unit, whatever the later buckets hold.
C8_TotalCostOfFirstBucket ==
    (total_cost # None /\ WellFormedTotal(response)) =>
        Unwrap(total_cost) =
            Ok([date_range |->
                    [start_date |-> DateNamed(Unwrap(Bucket(response).time_period).start),
                     end_date |-> DateNamed(Unwrap(Bucket(response).time_period).end)],
                cost |-> CostNamed(Bucket(response).total)])

C8_Witness ==
    /\ HasBucket(response)
    /\ Len(Unwrap(response.results_by_time)) = 2
    /\ total_cost =
         Some(Ok([date_range |-> [start_date |-> Date(2021, 7, 1),
                                  end_date |-> Date(2021, 7, 18)],
                  cost |-> [amount |-> F32(FALSE, 10, 10113516),
                            unit |-> "USD"]]))

WellFormedGroup(group) ==
    /\ group.keys # None
    /\ Unwrap(group.keys) # <<>>
    /\ WellFormedMetric(group.metrics)

WellFormedGroups(res) ==
    /\ HasBucket(res)
    /\ Bucket(res).groups # None
    /\ \A i \in DOMAIN Unwrap(Bucket(res).groups) :
         WellFormedGroup(Unwrap(Bucket(res).groups)[i])

\* C9: a response whose first time bucket has well-formed groups parses to
\* one ServiceCost per group, in the order of the groups, each with the
\* first key of its group and the group's AmortizedCost amount and unit.
C9_ServiceCostsInGroupOrder ==
    (service_costs # None /\ WellFormedGroups(response)) =>
        LET groups == Unwrap(Bucket(response).groups)
        IN  /\ IsOk(Unwrap(service_costs))
            /\ Len(Val(Unwrap(service_costs))) = Len(groups)
            /\ \A i \in DOMAIN groups :
                 Val(Unwrap(service_costs))[i] =
                    [service_name |-> Unwrap(groups[i].keys)[1],
                     cost |-> CostNamed(groups[i].metrics)]

C9_Witness ==
    /\ HasBucket(response)
    /\ Bucket(response).groups = Some(<<GroupFromInput(S3), GroupFromInput(EC2)>>)
    /\ service_costs =
         Some(Ok(<<[service_name |-> "Amazon Simple Storage Service",
                    cost |-> [amount |-> F32(FALSE, 10, 10113516), unit |-> "USD"]],
                   [service_name |-> "Amazon Elastic Compute Cloud",
                    cost |-> [amount |-> F32(FALSE, 14, 16084951), unit |-> "USD"]]>>))

MissingForTotal(res) ==
    \/ ~HasBucket(res)
    \/ Bucket(res).time_period = None
    \/ Bucket(res).total = None
    \/ "AmortizedCost" \notin DOMAIN Unwrap(Bucket(res).total)
    \/ Unwrap(Bucket(res).total)["AmortizedCost"].amount = None

MissingForServices(res) ==
    \/ ~HasBucket(res)
    \/ Bucket(res).groups = None

NothingSent == message = None /\ posts = <<>> /\ result = None

\* C10: when the response to the total request lacks its results, its
\* period, its AmortizedCost total or the amount, or the response to the
\* service request lacks its results or its groups, the parse panics, the
\* run ends there and no message is built or posted.
C10_MissingSectionFailsRun ==
    /\ (Len(replies) >= 1 /\ IsOk(replies[1]) /\ MissingForTotal(Val(replies[1]))) =>
         /\ IsPanic(Unwrap(total_cost))
         /\ service_costs = None
         /\ pc = "panicked"
         /\ NothingSent
    /\ (Len(replies) >= 2 /\ IsOk(replies[2]) /\ MissingForServices(Val(replies[2]))) =>
         /\ IsPanic(Unwrap(service_costs))
         /\ pc = "panicked"
         /\ NothingSent

C10_Witness ==
    /\ Len(replies) = 2
    /\ IsOk(replies[2])
    /\ HasBucket(Val(replies[2]))
    /\ Bucket(Val(replies[2])).groups = None
    /\ TotalParsed
    /\ pc = "panicked"

\* an optional sign, then digits with at most one "." among them
IsDecimalAmount(amount) ==
    LET body == IF amount # <<>> /\ Head(amount) \in {"-", "+"}
                THEN Tail(amount) ELSE amount
    IN  /\ \E i \in DOMAIN body : IsDigit(body[i])
        /\ \A i \in DOMAIN body : IsDigit(body[i]) \/ body[i] = "."
        /\ Cardinality({i \in DOMAIN body : body[i] = "."}) <= 1

NotANumber(metrics) ==
    /\ metrics # None
    /\ "AmortizedCost" \in DOMAIN Unwrap(metrics)
    /\ Unwrap(metrics)["AmortizedCost"].amount # None
    /\ ~IsDecimalAmount(Unwrap(Unwrap(metrics)["AmortizedCost"].amount))

\* C11 as stated: whenever the amount string of the total, or of one of the
\* groups, is not a decimal number, the conversion to a Cost fails and no
\* TotalCost or list of ServiceCost comes out of the response.
C11_NonNumericAmountFails ==
    /\ (/\ Len(replies) >= 1
        /\ IsOk(replies[1])
        /\ HasBucket(Val(replies[1]))
        /\ NotANumber(Bucket(Val(replies[1])).total)) =>
            IsPanic(Unwrap(total_cost))
    /\ (/\ Len(replies) >= 2
        /\ IsOk(replies[2])
        /\ HasBucket(Val(replies[2]))
        /\ Bucket(Val(replies[2])).groups # None
        /\ \E i \in DOMAIN Unwrap(Bucket(Val(replies[2])).groups) :
              NotANumber(Unwrap(Bucket(Val(replies[2])).groups)[i].metrics)) =>
            IsPanic(Unwrap(service_costs))

\* the dates the strings of SpecTimestamp can name
TimestampDates ==
    {d \in [year : {21, 2020, 2021}, month : {2, 7, 12},
             day : {1, 29, 30, 31}] :
        IsValidDate(d.year, d.month, d.day)}

\* strict YYYY-MM-DD: four, two and two digits
StrictText(date) ==
    ZeroPad(NatToChars(date.year), 4) \o <<"-">>
    \o ZeroPad(NatToChars(date.month), 2) \o <<"-">>
    \o ZeroPad(NatToChars(date.day), 2)

IsStrictText(ts) == \E date \in TimestampDates : StrictText(date) = ts

\* the writings of a year, and of a month or a day, that name the number n
YearForms(n) ==
    {ZeroPad(NatToChars(n), w) : w \in {Len(NatToChars(n)), 4}}
    \cup {<<"+">> \o ZeroPad(NatToChars(n), w) : w \in 1..5}
FieldForms(n) == {NatToChars(n), ZeroPad(NatToChars(n), 2)}

\* the texts that name `date` when blanks before a number, short numbers
\* and a signed year are allowed
LenientTexts(date) ==
    {l1 \o y \o <<"-">> \o l2 \o m \o <<"-">> \o l3 \o d :
        l1 \in LeadTexts, l2 \in LeadTexts, l3 \in LeadTexts,
        y \in YearForms(date.year), m \in FieldForms(date.month),
        d \in FieldForms(date.day)}

\* C12 as stated: exactly the strict YYYY-MM-DD strings of valid dates are
\* accepted, and every other string makes the operation fail.
C12_OnlyStrictAccepted ==
    (input_timestamp # None /\ reparsed # None) =>
        IF IsStrictText(Unwrap(input_timestamp))
        THEN \E date \in TimestampDates :
                /\ StrictText(date) = Unwrap(input_timestamp)
                /\ Unwrap(reparsed) = Ok(Some(date))
        ELSE ~IsOk(Unwrap(reparsed))

\* C12: every strict YYYY-MM-DD string of a valid date is parsed to that
\* date; the strings that are parsed at all are those that name a valid date
\* in the lenient writing (blanks before a number, a month or day of one
\* digit, a short or signed year), each parsed to the date it names; every
\* other string makes the operation panic.
C12_LenientTimestamp ==
    (input_timestamp # None /\ reparsed # None) =>
        /\ \A date \in TimestampDates :
             StrictText(date) = Unwrap(input_timestamp) =>
                Unwrap(reparsed) = Ok(Some(date))
        /\ \A date \in TimestampDates :
             Unwrap(input_timestamp) \in LenientTexts(date) <=>
                Unwrap(reparsed) = Ok(Some(date))
        /\ IsOk(Unwrap(reparsed)) =>
             \E date \in TimestampDates : Unwrap(reparsed) = Ok(Some(date))
        /\ ~IsOk(Unwrap(reparsed)) => IsPanic(Unwrap(reparsed))

C12_Witness ==
    /\ input_timestamp = Some(<<"2", "0", "2", "1", "-", "2", "-", "1">>)
    /\ reparsed = Some(Ok(Some(Date(2021, 2, 1))))

MessageBuilt == message # None /\ IsOk(Unwrap(message))

TwoDigits(n) == <<DigitChar(n \div 10), DigitChar(n % 10)>>

\* the amounts of SpecMessage written with two decimals (NaN has none)
TwoDecimals(amount) ==
    CASE amount = F32(FALSE, 10, 10113516) -> A1234_56
      [] amount = F32(FALSE, 14, 16084951) -> A31415_92
      [] amount = F32(FALSE, -7, 10737418) -> A0_01
      [] amount = F32(FALSE, -8, 10737418) -> <<"0", ".", "0", "0">>
      [] amount = F32(FALSE, -10, 8589935) -> <<"0", ".", "0", "0">>
      [] amount = F32(FALSE, -8, 12884902) -> A0_01
      [] amount = F32(TRUE, -10, 8589935) -> <<"-", "0", ".", "0", "0">>
      [] amount = F32(FALSE, 0, 13618066) -> <<"1", ".", "6", "2">>
      [] amount = NaN -> <<"N", "a", "N">>

IsNumber(amount) == amount.kind = "num"

\* C13: the header is MM/DD~MM/DD of the start and the end of the total's
\* date range, each of two digits, then the invoice phrase, the total's
\* amount with two decimals, a blank, its unit and the closing phrase.
C13_HeaderFormat ==
    (MessageBuilt /\ IsNumber(Val(Unwrap(total_cost)).cost.amount)) =>
        LET total == Val(Unwrap(total_cost))
        IN  Val(Unwrap(message)).header =
                TwoDigits(total.date_range.start_date.month) \o <<"/">>
                \o TwoDigits(total.date_range.start_date.day) \o <<"~">>
                \o TwoDigits(total.date_range.end_date.month) \o <<"/">>
                \o TwoDigits(total.date_range.end_date.day)
                \o <<InvoicePhrase>> \o TwoDecimals(total.cost.amount)
                \o <<" ", total.cost.unit, Desu>>

C13_Witness ==
    /\ MessageBuilt
    /\ Val(Unwrap(total_cost)).date_range =
          [start_date |-> Date(2020, 12, 1), end_date |-> Date(2021, 1, 1)]
    /\ Val(Unwrap(message)).header =
          <<"1", "2", "/", "0", "1", "~", "0", "1", "/", "0", "1",
            InvoicePhrase, "1", ".", "6", "2", " ", "JPY", Desu>>

InputServices == Val(Unwrap(service_costs))

\* the text of a cost and the line of a service, written out
CostText(cost) == TwoDecimals(cost.amount) \o <<" ", cost.unit>>
LineText(service) ==
    <<Bullet, service.service_name, ":", " ">> \o CostText(service.cost)

PassesZeroFilter(service) ==
    CostText(service.cost) # <<"0", ".", "0", "0", " ", "USD">>

Orderings(n) ==
    {p \in [1..n -> 1..n] : \A i, j \in 1..n : p[i] = p[j] => i = j}

RECURSIVE Joined(_)
Joined(lines) ==
    IF lines = <<>> THEN <<>>
    ELSE IF Len(lines) = 1 THEN lines[1]
    ELSE lines[1] \o <<"\n">> \o Joined(Tail(lines))

\* C14: the body is the lines of the services that pass the zero filter,
\* each of them once and in some order, with a newline between two lines
\* and none at the end; it is empty when no service passes.
C14_BodyLines ==
    MessageBuilt =>
        LET passing == SelectSeq(InputServices, PassesZeroFilter)
        IN  \E p \in Orderings(Len(passing)) :
               Val(Unwrap(message)).body =
                  Joined([i \in 1..Len(passing) |-> LineText(passing[p[i]])])

C14_Witness ==
    /\ MessageBuilt
    /\ Len(InputServices) = 2
    /\ InputServices[1].service_name = "AWS Cost Explorer"
    /\ Val(Unwrap(message)).body =
          <<Bullet, "AWS CloudTrail", ":", " ", "0", ".", "0", "1", " ", "USD">>

\* byte order of the units
UnitGreater(a, b) ==
    <<a, b>> \in {<<"USD", "JPY">>, <<"USD", "EUR">>, <<"JPY", "EUR">>}

AmountGreater(a, b) == F32Lt(b.cost.amount, a.cost.amount)
AmountEqual(a, b) == ~AmountGreater(a, b) /\ ~AmountGreater(b, a)

\* the body of the services taken in the order q, the filtered ones left out
BodyInOrder(q) ==
    Joined(LET ordered == [i \in 1..Len(InputServices) |-> InputServices[q[i]]]
               passing == SelectSeq(ordered, PassesZeroFilter)
           IN  [i \in 1..Len(passing) |-> LineText(passing[i])])

\* C15 as stated: the lines are in descending order of amount, and services
\* of equal amount keep the order of the input, whatever their units.
C15_DescendingStableByAmount ==
    MessageBuilt =>
        \E q \in Orderings(Len(InputServices)) :
            /\ \A i, j \in 1..Len(InputServices) :
                 i < j =>
                    \/ AmountGreater(InputServices[q[i]], InputServices[q[j]])
                    \/ /\ AmountEqual(InputServices[q[i]], InputServices[q[j]])
                       /\ q[i] < q[j]
            /\ Val(Unwrap(message)).body = BodyInOrder(q)

\* C15: the lines are in descending order of amount; of two services of
\* equal amount the one with the greater unit string comes first, and two
\* services of equal amount and unit keep the order of the input.
C15_DescendingByAmountThenUnit ==
    MessageBuilt =>
        \E q \in Orderings(Len(InputServices)) :
            /\ \A i, j \in 1..Len(InputServices) :
                 i < j =>
                    LET a == InputServices[q[i]]
                        b == InputServices[q[j]]
                    IN  \/ AmountGreater(a, b)
                        \/ /\ AmountEqual(a, b)
                           /\ UnitGreater(a.cost.unit, b.cost.unit)
                        \/ /\ AmountEqual(a, b)
                           /\ a.cost.unit = b.cost.unit
                           /\ q[i] < q[j]
            /\ Val(Unwrap(message)).body = BodyInOrder(q)

C15_Witness ==
    /\ MessageBuilt
    /\ Len(InputServices) = 2
    /\ InputServices[1].service_name = "AWS Support"
    /\ InputServices[2].service_name = "Amazon Simple Storage Service"
    /\ Val(Unwrap(message)).body =
          LineText(InputServices[2]) \o <<"\n">> \o LineText(InputServices[1])

\* the lines of a body: the texts between its newlines
RECURSIVE Lines(_)
Lines(body) ==
    IF body = <<>> THEN <<>>
    ELSE LET breaks == {i \in DOMAIN body : body[i] = "\n"}
         IN  IF breaks = {} THEN <<body>>
             ELSE LET k == CHOOSE i \in breaks : \A j \in breaks : i <= j
                  IN  <<SubSeq(body, 1, k - 1)>>
                      \o Lines(SubSeq(body, k + 1, Len(body)))

HasLine(service) ==
    \E i \in DOMAIN Lines(Val(Unwrap(message)).body) :
        Lines(Val(Unwrap(message)).body)[i] = LineText(service)

RoundsToZero(amount) ==
    /\ IsNumber(amount)
    /\ TwoDecimals(amount) \in {<<"0", ".", "0", "0">>,
                                <<"-", "0", ".", "0", "0">>}

\* C16 as stated: a service whose amount rounds to 0.00 at two decimals has
\* no line in the body, whatever its unit and the sign of the amount.
C16_RoundedZeroOmitted ==
    MessageBuilt =>
        \A i \in DOMAIN InputServices :
            RoundsToZero(InputServices[i].cost.amount) =>
                ~HasLine(InputServices[i])

HeaderText(total) ==
    TwoDigits(total.date_range.start_date.month) \o <<"/">>
    \o TwoDigits(total.date_range.start_date.day) \o <<"~">>
    \o TwoDigits(total.date_range.end_date.month) \o <<"/">>
    \o TwoDigits(total.date_range.end_date.day)
    \o <<InvoicePhrase>> \o CostText(total.cost) \o <<Desu>>

\* C17: a service whose cost is written "0.00 USD" has no line in the body,
\* whatever the total cost is, and the header is the header of the total
\* cost, also when the total itself is written "0.00 USD".
C17_ZeroUSDNeverShown ==
    MessageBuilt =>
        /\ \A i \in DOMAIN InputServices :
             CostText(InputServices[i].cost) =
                    <<"0", ".", "0", "0", " ", "USD">> =>
                ~HasLine(InputServices[i])
        /\ Val(Unwrap(message)).header = HeaderText(Val(Unwrap(total_cost)))

C17_Witness ==
    /\ MessageBuilt
    /\ Len(InputServices) = 2
    /\ InputServices[1].service_name = "AWS Lambda"
    /\ InputServices[2].service_name = "Amazon Simple Storage Service"
    /\ Val(Unwrap(total_cost)).cost = [amount |-> F32(FALSE, -10, 8589935),
                                       unit |-> "USD"]
    /\ Lines(Val(Unwrap(message)).body) = <<LineText(InputServices[2])>>
    /\ <<"0", ".", "0", "0", " ", "USD">> =
          SubSeq(Val(Unwrap(message)).header, 13, 18)

\* the f32 of the literal 0.01
OneCent == F32(FALSE, -7, 10737418)

\* C18 as stated: a service whose amount is less than 0.01 USD has no line
\* in the body.
C18_BelowOneCentSkipped ==
    MessageBuilt =>
        \A i \in DOMAIN InputServices :
            (/\ IsNumber(InputServices[i].cost.amount)
             /\ InputServices[i].cost.unit = "USD"
             /\ F32Lt(InputServices[i].cost.amount, OneCent)) =>
                ~HasLine(InputServices[i])

Failed(outcome) == outcome # None /\ ~IsOk(Unwrap(outcome))

\* C19: a message is handed to the notifier only in a run where both
\* requests were answered and both answers were parsed, and then once and
\* whole; in a run where a request or its parsing failed nothing is built
\* and nothing is posted.
C19_NoPartialNotification ==
    /\ posts # <<>> =>
         /\ Len(posts) = 1
         /\ Len(replies) = 2
         /\ IsOk(replies[1])
         /\ IsOk(replies[2])
         /\ TotalParsed
         /\ ServicesParsed
         /\ posts[1] =
              Val(NotificationMessageNew(Val(Unwrap(total_cost)),
                                         Val(Unwrap(service_costs))))
    /\ (Failed(total_cost) \/ Failed(service_costs)) =>
         /\ pc = "panicked"
         /\ NothingSent
    /\ (\E i \in DOMAIN replies : ~IsOk(replies[i])) => NothingSent

C19_Witness ==
    /\ Len(posts) = 1
    /\ TotalParsed
    /\ ServicesParsed
    /\ Len(Val(Unwrap(service_costs))) = 2
    /\ result = Some("Ok")

\* C20: NotificationMessage::new is invoked only when request_total_cost
\* and request_service_costs have both returned, and its arguments are the
\* TotalCost parsed from the first reply and the service costs parsed from
\* the second.
C20_MessageFromBothResults ==
    /\ pc \in {"start", "total", "service", "notify"} => message = None
    /\ message # None =>
         /\ Len(calls) = 2
         /\ Len(replies) = 2
         /\ IsOk(replies[1])
         /\ IsOk(replies[2])
         /\ total_cost = Some(TotalCostFrom(Val(replies[1])))
         /\ service_costs = Some(ServiceCostFromResponse(Val(replies[2])))
         /\ TotalParsed
         /\ ServicesParsed
         /\ Unwrap(message) =
              NotificationMessageNew(
                  Val(TotalCostFrom(Val(replies[1]))),
                  Val(ServiceCostFromResponse(Val(replies[2]))))

C20_Witness ==
    /\ message # None
    /\ IsOk(Unwrap(message))
    /\ Len(calls) = 2
    /\ calls[2].group_by # None
    /\ Val(Unwrap(service_costs)) # <<>>
    /\ Val(Unwrap(message)).body # <<>>

C22_EveryRunRequeriesAndResends ==
    [][/\ (pc \in {"done", "panicked"} /\ pc' = "start") =>
            /\ total_cost' = None
            /\ service_costs' = None
            /\ message' = None
            /\ result' = None
            /\ report_date_range' = None
            /\ calls' = calls
            /\ posts' = posts
       /\ (pc = "total" /\ pc' # "total") =>
            /\ Len(calls') = Len(calls) + 1
            /\ calls'[Len(calls')] =
                 build_cost_and_usage_request(Unwrap(report_date_range), TRUE)
       /\ (pc = "service" /\ pc' # "service") =>
            /\ Len(calls') = Len(calls) + 1
            /\ calls'[Len(calls')] =
                 build_cost_and_usage_request(Unwrap(report_date_range), FALSE)
       /\ (pc = "notify" /\ pc' = "done") =>
            /\ Len(posts') = Len(posts) + 1
            /\ posts'[Len(posts')] = Val(Unwrap(message'))
      ]_vars

C22_Witness ==
    /\ invocations = 2
    /\ pc = "done"
    /\ Len(calls) = 4
    /\ calls[1] = calls[3]
    /\ calls[2] = calls[4]
    /\ Len(posts) = 2
    /\ posts[1] = posts[2]
    /\ slack_replies = <<"Ok", "Ok">>

\* C23 as stated: a second application of TotalCost::from and of
\* ServiceCost::from_response to the same response gives results equal (==)
\* to those of the first, or fails in the same way, and the response is the
\* same after as before.
C23_ParsingTwiceEqual ==
    (mode = "reparse" /\ reparsed # None) =>
        LET first_total == Unwrap(total_cost)
            second_total == Unwrap(reparsed).total
            first_services == Unwrap(service_costs)
            second_services == Unwrap(reparsed).services
        IN  /\ IF IsOk(first_total) /\ IsOk(second_total)
               THEN TotalCostEq(Val(first_total), Val(second_total))
               ELSE first_total = second_total
            /\ IF IsOk(first_services) /\ IsOk(second_services)
               THEN ServiceCostsEq(Val(first_services), Val(second_services))
               ELSE first_services = second_services

\* days from 2019-01-01 to the date
RECURSIVE DaysBeforeYear(_)
DaysBeforeYear(y) ==
    IF y <= 2019 THEN 0
    ELSE DaysBeforeYear(y - 1) + (IF IsLeapYear(y - 1) THEN 366 ELSE 365)

RECURSIVE DaysBeforeMonth(_, _)
DaysBeforeMonth(y, m) ==
    IF m = 1 THEN 0 ELSE DaysBeforeMonth(y, m - 1) + DaysInMonth(y, m - 1)

DayNumber(date) ==
    DaysBeforeYear(date.year) + DaysBeforeMonth(date.year, date.month)
    + date.day - 1

\* the days around the instants of SpecTimezone
NearbyDates ==
    {d \in [year : {2020, 2021, 2022}, month : {1, 2, 3, 7, 8, 12},
            day : {1, 2, 27, 28, 29, 30, 31}] :
        IsValidDate(d.year, d.month, d.day)}

\* the day of the timezone `name` that holds the instant
HoldsInstant(date, instant, name) ==
    LET minutes == 1440 * DayNumber(instant.date) + instant.minute
                   + TzOffset(name)
    IN  /\ 1440 * DayNumber(date) <= minutes
        /\ minutes < 1440 * (DayNumber(date) + 1)

\* C24: for a timezone name that parses, the result is the calendar date,
\* in that timezone, of the instant given, whatever the timezone of the
\* input; for any other name the result is an Err and holds no date.
C24_DateInNamedTimezone ==
    actual_date # None =>
        IF Unwrap(tz_string) \in TzNames
        THEN \E date \in NearbyDates :
                /\ HoldsInstant(date, Unwrap(now), Unwrap(tz_string))
                /\ Unwrap(actual_date) =
                      Ok([date |-> date, timezone |-> Unwrap(tz_string)])
        ELSE Unwrap(actual_date) = Err("Invalid Timezone!")

C24_Witness ==
    /\ now = Some([date |-> Date(2021, 7, 31), minute |-> 900, offset |-> 0])
    /\ tz_string = Some("Asia/Tokyo")
    /\ actual_date =
          Some(Ok([date |-> Date(2021, 8, 1), timezone |-> "Asia/Tokyo"]))

\* C25: a call of get_cost_and_usage enters the body once, hands the request
\* once to the wrapped CostExplorerClient and returns its answer unchanged,
\* in both files that define CostAndUsageClient.
C25_ForwardsOnceAndReturns ==
    /\ entries <= 1
    /\ returned # None =>
          /\ forwarded = <<Unwrap(client_call).input>>
          /\ returned = Some(get_cost_and_usage(Unwrap(client_call).wrapped,
                                                Unwrap(client_call).input))

\* the groups of the first time bucket as ParsedServiceCost records
GroupsAsParsed(res) ==
    LET parsed == Val(ServiceCostFromResponse(res))
    IN  [i \in 1..Len(parsed) |->
            [service_name |-> parsed[i].service_name,
             cost |-> parsed[i].cost.amount,
             unit |-> parsed[i].cost.unit]]

\* C26: parse_service_costs of total_cost.rs returns one ParsedServiceCost
\* per group of the first time bucket, with the group's service name, parsed
\* AmortizedCost amount and unit, in the order of the groups.
C26_OnePerGroup ==
    (parsed_service_costs # None /\ IsOk(ServiceCostFromResponse(response)))
        => Unwrap(parsed_service_costs) = GroupsAsParsed(response)

\* C27: the payload has exactly three blocks, in this order: a header block
\* whose plain text is the message header, a divider block, and a section
\* block whose only field is a mrkdwn text holding the message body; the
\* two texts are carried unchanged and are in different blocks.
C27_ThreeBlocks ==
    payload # None =>
        LET blocks == Unwrap(payload).blocks
            sent == Val(Unwrap(message))
        IN  /\ DOMAIN Unwrap(payload) = {"blocks"}
            /\ Len(blocks) = 3
            /\ DOMAIN blocks[1] = {"type", "text"}
            /\ blocks[1].type = "header"
            /\ DOMAIN blocks[1].text = {"type", "text"}
            /\ blocks[1].text.type = "plain_text"
            /\ blocks[1].text.text = sent.header
            /\ DOMAIN blocks[2] = {"type"}
            /\ blocks[2].type = "divider"
            /\ DOMAIN blocks[3] = {"type", "fields"}
            /\ blocks[3].type = "section"
            /\ Len(blocks[3].fields) = 1
            /\ DOMAIN blocks[3].fields[1] = {"type", "text"}
            /\ blocks[3].fields[1].type = "mrkdwn"
            /\ blocks[3].fields[1].text = sent.body

C27_Witness ==
    /\ payload # None
    /\ Len(Unwrap(payload).blocks) = 3
    /\ Unwrap(payload).blocks[1].type = "header"
    /\ Unwrap(payload).blocks[1].text.text = Val(Unwrap(message)).header
    /\ Unwrap(payload).blocks[3].fields[1].text = Val(Unwrap(message)).body
    /\ Val(Unwrap(message)).body # <<>>

\* the dates of the periods the clients of Spec return, and the date a
\* strictly formatted timestamp denotes
PeriodDates ==
    {Date(2021, 6, 1), Date(2021, 7, 1)}
    \cup {ReportDateRangeNew(d).start_date : d \in RunDates} \cup RunDates

DateOfText(timestamp) == CHOOSE d \in PeriodDates : FormatDate(d) = timestamp

MonthDayText(date) == TwoDigits(date.month) \o <<"/">> \o TwoDigits(date.day)

RangeText(start, end) == MonthDayText(start) \o <<"~">> \o MonthDayText(end)

\* the first eleven characters of the header: MM/DD~MM/DD
ShownDates == SubSeq(Val(Unwrap(message)).header, 1, 11)

\* the time_period of the response to the total-cost request
ReturnedPeriod == Unwrap(Bucket(Val(replies[1])).time_period)

MonthIndex(date) == 12 * date.year + date.month

\* C29: the range of ReportDateRange::new starts on day 1 of a month, starts
\* strictly before it ends, and its end is in the month of its start or is
\* the 1st of the month after it.
C29_RangeWithinOneMonth ==
    report_date_range # None =>
        LET range == Unwrap(report_date_range)
        IN  /\ range.start_date.day = 1
            /\ DateLt(range.start_date, range.end_date)
            /\ \/ MonthIndex(range.end_date) = MonthIndex(range.start_date)
               \/ /\ range.end_date.day = 1
                  /\ MonthIndex(range.end_date)
                        = MonthIndex(range.start_date) + 1

C29_Witness ==
    /\ reporting_date = Date(2020, 3, 1)
    /\ report_date_range # None
    /\ Unwrap(report_date_range).start_date = Date(2020, 2, 1)
    /\ Unwrap(report_date_range).end_date = Date(2020, 3, 1)

\* C30: in one run the total-cost request is the first request, the
\* service-cost request is issued only after the total-cost response has
\* been parsed, and after a total-cost request or parse that failed no
\* service-cost request is issued.
C30_TotalBeforeServices ==
    /\ total_cost = None => (calls = <<>> /\ service_costs = None)
    /\ Len(calls) >= 1 => calls[1].group_by = None
    /\ Len(calls) >= 2 =>
          /\ TotalParsed
          /\ calls[2].group_by # None
    /\ (total_cost # None /\ ~IsOk(Unwrap(total_cost))) =>
          /\ Len(calls) = 1
          /\ service_costs = None
          /\ pc = "panicked"

C30_Witness ==
    /\ total_cost # None
    /\ IsPanic(Unwrap(total_cost))
    /\ Len(replies) = 1
    /\ IsOk(replies[1])
    /\ Len(calls) = 1
    /\ service_costs = None
    /\ pc = "panicked"

====
